---- MODULE Spec2Model ----
(***************************************************************************)
(* Retention sweepers of the z-alert notification bot.                     *)
(*                                                                         *)
(*   alert.py        run_delete_noti: one mixed-kind page stream, each     *)
(*                   page handed to delete_old_direct_messages and then to *)
(*                   delete_old_stream_messages.                           *)
(*   delete_noti.py  __main__: delete_old_direct_messages() and then       *)
(*                   delete_old_stream_messages(), each its own page loop. *)
(*                                                                         *)
(* Time is counted in hours.  The remote message store is the set hist of  *)
(* identifiers that still exist; msgs holds the immutable records.         *)
(*                                                                         *)
(* The background routines of the bot follow the sweepers, each with a     *)
(* specification of its own: presence monitoring (alert.py and zalert.py), *)
(* the heartbeat, the event handler, the random broadcast and the          *)
(* quarter-hour report of alert.py.  Their timed loops count minutes.      *)
(***************************************************************************)
EXTENDS Integers, Sequences, FiniteSets, TLC

VARIABLES
    msgs,     \* the message records ever sent, indexed by identifier (1 = oldest)
    hist,     \* identifiers that still exist on the server
    clock,    \* wall clock, in hours (in minutes for the timed loops)
    sw,       \* sw[p]: the local variables and position of sweep invocation p
    log,      \* log[p]: the remote calls and sleeps invocation p has made, in order
    verdict,  \* result of the last classification (classifier specification only)
    bg,       \* local variables and position of a background routine of the bot
    env,      \* what that routine reads from outside: files, server data, events
    trace     \* the polls, sends and saves a background routine has made, in order

vars == <<msgs, hist, clock, sw, log, verdict, bg, env, trace>>

\* the variables of the sweepers, which the background routines leave alone
sweepVars == <<msgs, hist, sw, log, verdict>>

-----------------------------------------------------------------------------
(* Bounds of the model *)

MaxMsgs == 3        \* longest message history
PageSize == 2       \* num_before of get_messages (200 in the source), scaled down
MaxTicks == 1       \* how many hours the clock may advance during the run
StartClock == 100   \* clock value at which the run starts
MaxRuns == 2        \* how many times the cleanup endpoint is requested in a row

-----------------------------------------------------------------------------
(* Constants of the source *)

DM_DELETE_OLDER_THAN == 48
STREAM_DELETE_OLDER_THAN == 3 * 24
EXCLUDED_STREAM == "spring"
EXCLUDED_TOPIC == "Txt"

Dn_DM_DELETE_OLDER_THAN == 24
Dn_STREAM_DELETE_OLDER_THAN == 3 * 24
Dn_EXCLUDED_STREAM == "spring"
Dn_EXCLUDED_TOPIC == "Txt"

BOT_SENDER == "noti"
Newest == 0         \* the anchor "newest"; message identifiers are 1, 2, ...

-----------------------------------------------------------------------------
(* Message histories *)

Message(type, recipient, subject, sender, age) ==
    [type |-> type, display_recipient |-> recipient, subject |-> subject,
     sender |-> sender, timestamp |-> StartClock - age]

\* ages in hours when the run starts; a stream message aged 72 is at the
\* stream boundary: kept, unless the clock advances before it is examined
Catalog ==
    { Message("private", "users", "", BOT_SENDER, a) : a \in {72, 50, 1} }
    \cup { Message("stream", "general", "misc", BOT_SENDER, 72),
           Message("stream", "spring", "Txt", BOT_SENDER, 80),
           Message("stream", "spring", "misc", BOT_SENDER, 80),
           Message("private", "users", "", "someone", 80) }

\* identifiers are handed out in sending order, so timestamps never decrease
Histories ==
    { h \in UNION { [1..n -> Catalog] : n \in 0..MaxMsgs } :
        \A k \in 1..(Len(h) - 1) : h[k].timestamp <= h[k + 1].timestamp }

-----------------------------------------------------------------------------
(* Helpers *)

RECURSIVE SortedSeq(_)
SortedSeq(S) ==
    IF S = {} THEN <<>>
    ELSE LET m == CHOOSE x \in S : \A y \in S : x <= y
         IN  <<m>> \o SortedSeq(S \ {m})

LastN(s, n) == IF Len(s) <= n THEN s ELSE SubSeq(s, Len(s) - n + 1, Len(s))

Range(s) == { s[k] : k \in DOMAIN s }

\* a log entry: ev is "fetch", "scan" (a delete loop starts on a page), "sleep",
\* "delete", "wait", "summary" or "total"; fn is the sweep or the delete loop
\* it belongs to
Event(ev, fn) ==
    [ev |-> ev, fn |-> fn, id |-> 0, page |-> <<>>, now |-> 0, ok |-> TRUE,
     dm |-> 0, stream |-> 0]

\* outcomes of a remote call: a success result, a non-success result, an exception
Outcomes == {"success", "error", "raise"}

\* the clock may advance while the sweep sleeps
Elapse == { c \in {clock, clock + 1} : c <= StartClock + MaxTicks }

-----------------------------------------------------------------------------
(* The remote store *)

\* the sender operator is missing from the narrow
MatchesNarrow_AnySender(m, kind) == kind = "any" \/ m.type = kind

\* narrow: sender = the bot, and for delete_noti.py the message kind
MatchesNarrow(m, kind) ==
    m.sender = BOT_SENDER /\ (kind = "any" \/ m.type = kind)

\* the server keeps returning messages that were deleted
GetMessages_Stale(anchor, kind) ==
    LET vis    == { id \in DOMAIN msgs : MatchesNarrow(msgs[id], kind) }
        before == IF anchor = Newest THEN vis ELSE { id \in vis : id < anchor }
        anch   == IF anchor # Newest /\ anchor \in vis THEN <<anchor>> ELSE <<>>
    IN  LastN(SortedSeq(before), PageSize) \o anch

\* GET /messages with anchor, num_before = PageSize, num_after = 0: the
\* PageSize matching messages before the anchor, oldest first, followed by the
\* anchor message itself when it still exists and matches (the request does
\* not set include_anchor, whose default is true).
GetMessages(anchor, kind) ==
    LET vis    == { id \in hist : MatchesNarrow(msgs[id], kind) }
        before == IF anchor = Newest THEN vis ELSE { id \in vis : id < anchor }
        anch   == IF anchor # Newest /\ anchor \in vis THEN <<anchor>> ELSE <<>>
    IN  LastN(SortedSeq(before), PageSize) \o anch

\* DELETE /messages/{id}: the server removes an existing message on success; a
\* message that is gone cannot be deleted again
DeleteOutcomes(id) == IF id \in hist THEN Outcomes ELSE Outcomes \ {"success"}

-----------------------------------------------------------------------------
(* alert.py: classification *)

\* the stream name is compared in the wrong letter case
IsExcluded_WrongCase(m) ==
    m.display_recipient = "Spring" /\ m.subject = EXCLUDED_TOPIC

IsExcluded(m) ==
    m.display_recipient = EXCLUDED_STREAM /\ m.subject = EXCLUDED_TOPIC

\* the age test lets a message of exactly the maximum age through
DirectQualifies_Inclusive(m, cutoff) ==
    m.type = "private" /\ m.timestamp <= cutoff

\* delete_old_direct_messages: the messages of the page it sends a DELETE for
DirectQualifies(m, cutoff) ==
    m.type = "private" /\ m.timestamp < cutoff

\* the kind test of the stream loop is missing
StreamQualifies_AnyKind(m, cutoff) ==
    ~IsExcluded(m) /\ m.timestamp < cutoff

\* delete_old_stream_messages: the messages of the page it sends a DELETE for
StreamQualifies(m, cutoff) ==
    m.type = "stream" /\ ~IsExcluded(m) /\ m.timestamp < cutoff

Qualifies(fn, m, cutoff) ==
    IF fn = "dm" THEN DirectQualifies(m, cutoff) ELSE StreamQualifies(m, cutoff)

\* the direct loop uses the stream retention
DirectCutoff_StreamAge(now) == now - STREAM_DELETE_OLDER_THAN

\* now - DM_DELETE_OLDER_THAN, now - STREAM_DELETE_OLDER_THAN
DirectCutoff(now) == now - DM_DELETE_OLDER_THAN
StreamCutoff(now) == now - STREAM_DELETE_OLDER_THAN

\* every answered or failed request is counted
Counted_Always(outcome) == TRUE

\* every request that returns a result is counted, an error result included
Counted_AnyResult(outcome) == outcome # "raise"

\* if result["result"] == "success": deleted += 1
Counted(outcome) == outcome = "success"

\* fetch_bot_messages and both delete loops wrap the remote call in
\* try / except Exception, and send_cleanup_summary wraps send_message, so an
\* exception of the call never leaves them
FetchRaises(outcome) == FALSE
\* the DELETE call is outside the try
DeleteRaises_Uncaught(outcome) == outcome = "raise"
DeleteRaises(outcome) == FALSE
\* send_message is called outside the try
SummaryRaises_Uncaught(outcome) == outcome = "raise"
SummaryRaises(outcome) == FALSE

\* fetch_bot_messages: [] on a non-success result or an exception
FetchResult(outcome, anchor, kind) ==
    IF outcome = "success" THEN GetMessages(anchor, kind) ELSE <<>>

\* the short-page break is missing
IsFinalPage_Never(messages) == FALSE

\* a page of exactly the page size ends the loop as well
IsFinalPage_Inclusive(messages) == Len(messages) <= PageSize

\* if len(messages) < 200: break
IsFinalPage(messages) == Len(messages) < PageSize

\* the page is walked from its last record to its first
Visit_Reversed(messages, i) == messages[Len(messages) + 1 - i]

\* for msg in messages: the record of the i-th iteration
Visit(messages, i) == messages[i]

\* the delay is missing: the DELETE is sent straight away
Sleep_Skipped(fn, id) == <<>>

\* time.sleep(0.15) ahead of the DELETE for message id
Sleep(fn, id) == <<[Event("sleep", fn) EXCEPT !.id = id]>>

\* the delay between two pages is left out
PageDelay_Skipped(fn) == <<>>

\* time.sleep(60) between two pages
PageDelay(fn) == <<Event("wait", fn)>>

\* the summary reports the count of the last page only
SummaryCounts_LastPage(s) == [dm |-> 0, stream |-> s.deleted]

\* send_cleanup_summary(total_dm_deleted, total_stream_deleted)
SummaryCounts(s) ==
    [dm |-> s.total_dm_deleted, stream |-> s.total_stream_deleted]

\* return {"dm_deleted": total_dm_deleted, "stream_deleted": total_stream_deleted}
Result(s) ==
    [dm_deleted |-> s.total_dm_deleted,
     stream_deleted |-> s.total_stream_deleted]

\* delete_noti_endpoint: the answer built from the result of run_delete_noti
Response(result) ==
    [status |-> "cleanup completed", dm_deleted |-> result.dm_deleted,
     stream_deleted |-> result.stream_deleted]

-----------------------------------------------------------------------------
(* alert.py: run_delete_noti *)

InitSweep(impl) ==
    [impl |-> impl, pc |-> "start", fn |-> "dm", anchor |-> Newest,
     messages |-> <<>>, oldest_id |-> Newest, i |-> 1, now |-> 0, cutoff |-> 0,
     deleted |-> 0, total_dm_deleted |-> 0, total_stream_deleted |-> 0]

At(p, impl, pc) == sw[p].impl = impl /\ sw[p].pc = pc

Set(p, s) == sw' = [sw EXCEPT ![p] = s]
Log(p, es) == log' = [log EXCEPT ![p] = @ \o es]

\* anchor = "newest"; total_dm_deleted = 0; total_stream_deleted = 0
Start(p) ==
    /\ At(p, "alert", "start")
    /\ Set(p, [sw[p] EXCEPT !.pc = "fetch", !.anchor = Newest,
                            !.total_dm_deleted = 0, !.total_stream_deleted = 0])
    /\ UNCHANGED <<bg, env, trace, msgs, hist, clock, log, verdict>>

\* messages = fetch_bot_messages(anchor); if not messages: break;
\* oldest_id = messages[0]["id"]; enter delete_old_direct_messages(messages),
\* which reads the clock
Fetch(p) ==
    /\ At(p, "alert", "fetch")
    /\ \E outcome \in Outcomes :
         LET page  == FetchResult(outcome, sw[p].anchor, "any")
             fetch == [Event("fetch", "all") EXCEPT !.id = sw[p].anchor,
                           !.page = page, !.ok = (outcome = "success")]
             scan  == [Event("scan", "dm") EXCEPT !.page = page, !.now = clock]
         IN
         IF FetchRaises(outcome)
         THEN /\ Set(p, [sw[p] EXCEPT !.pc = "raised"])
              /\ Log(p, <<fetch>>)
         ELSE IF page = <<>>
         THEN /\ Set(p, [sw[p] EXCEPT !.pc = "summary", !.messages = page])
              /\ Log(p, <<fetch>>)
         ELSE /\ Set(p, [sw[p] EXCEPT !.pc = "loop", !.fn = "dm",
                                      !.messages = page, !.oldest_id = page[1],
                                      !.now = clock,
                                      !.cutoff = DirectCutoff(clock),
                                      !.deleted = 0, !.i = 1])
              /\ Log(p, <<fetch, scan>>)
    /\ UNCHANGED <<bg, env, trace, msgs, hist, clock, verdict>>

\* a loop iteration that sends nothing: wrong kind, excluded, or not old enough
LoopSkip(p) ==
    /\ At(p, "alert", "loop")
    /\ sw[p].i <= Len(sw[p].messages)
    /\ ~Qualifies(sw[p].fn, msgs[Visit(sw[p].messages, sw[p].i)], sw[p].cutoff)
    /\ Set(p, [sw[p] EXCEPT !.i = @ + 1])
    /\ UNCHANGED <<bg, env, trace, msgs, hist, clock, log, verdict>>

\* time.sleep(0.15) before the DELETE
LoopSleep(p) ==
    /\ At(p, "alert", "loop")
    /\ sw[p].i <= Len(sw[p].messages)
    /\ Qualifies(sw[p].fn, msgs[Visit(sw[p].messages, sw[p].i)], sw[p].cutoff)
    /\ Set(p, [sw[p] EXCEPT !.pc = "call"])
    /\ Log(p, Sleep(sw[p].fn, Visit(sw[p].messages, sw[p].i)))
    /\ clock' \in Elapse
    /\ UNCHANGED <<bg, env, trace, msgs, hist, verdict>>

\* bot_client.call_endpoint(url=/messages/{msg_id}, method=DELETE) in a try
LoopCall(p) ==
    /\ At(p, "alert", "call")
    /\ LET id == Visit(sw[p].messages, sw[p].i) IN
       \E outcome \in DeleteOutcomes(id) :
         /\ hist' = IF outcome = "success" THEN hist \ {id} ELSE hist
         /\ Log(p, <<[Event("delete", sw[p].fn) EXCEPT !.id = id,
                          !.ok = (outcome = "success")]>>)
         /\ IF DeleteRaises(outcome)
            THEN Set(p, [sw[p] EXCEPT !.pc = "raised"])
            ELSE Set(p, [sw[p] EXCEPT !.pc = "loop", !.i = @ + 1,
                           !.deleted = IF Counted(outcome) THEN @ + 1 ELSE @])
    /\ UNCHANGED <<bg, env, trace, msgs, clock, verdict>>

\* return deleted; total_dm_deleted += dm_deleted;
\* enter delete_old_stream_messages(messages), which reads the clock
DirectReturn(p) ==
    /\ At(p, "alert", "loop")
    /\ sw[p].fn = "dm"
    /\ sw[p].i > Len(sw[p].messages)
    /\ Set(p, [sw[p] EXCEPT !.fn = "stream",
                            !.total_dm_deleted = @ + sw[p].deleted,
                            !.now = clock,
                            !.cutoff = StreamCutoff(clock),
                            !.deleted = 0, !.i = 1])
    /\ Log(p, <<[Event("scan", "stream") EXCEPT !.page = sw[p].messages,
                     !.now = clock]>>)
    /\ UNCHANGED <<bg, env, trace, msgs, hist, clock, verdict>>

\* return deleted; total_stream_deleted += stream_deleted; anchor = oldest_id;
\* if len(messages) < 200: break
StreamReturn(p) ==
    /\ At(p, "alert", "loop")
    /\ sw[p].fn = "stream"
    /\ sw[p].i > Len(sw[p].messages)
    /\ Set(p, [sw[p] EXCEPT !.total_stream_deleted = @ + sw[p].deleted,
                            !.anchor = sw[p].oldest_id,
                            !.pc = IF IsFinalPage(sw[p].messages)
                                   THEN "summary" ELSE "wait"])
    /\ UNCHANGED <<bg, env, trace, msgs, hist, clock, log, verdict>>

\* time.sleep(60) between pages
PageWait(p) ==
    /\ At(p, "alert", "wait")
    /\ Set(p, [sw[p] EXCEPT !.pc = "fetch"])
    /\ Log(p, PageDelay("all"))
    /\ clock' \in Elapse
    /\ UNCHANGED <<bg, env, trace, msgs, hist, verdict>>

\* send_cleanup_summary(total_dm_deleted, total_stream_deleted), whose send is
\* in a try; then return the two totals
Summary(p) ==
    /\ At(p, "alert", "summary")
    /\ \E outcome \in Outcomes :
         /\ Log(p, <<[Event("summary", "all") EXCEPT
                          !.dm = SummaryCounts(sw[p]).dm,
                          !.stream = SummaryCounts(sw[p]).stream,
                          !.ok = (outcome = "success")]>>)
         /\ Set(p, [sw[p] EXCEPT !.pc = IF SummaryRaises(outcome)
                                        THEN "raised" ELSE "done"])
    /\ UNCHANGED <<bg, env, trace, msgs, hist, clock, verdict>>

-----------------------------------------------------------------------------
(* delete_noti.py: classification *)

\* nothing is exempt
Dn_IsExcluded_Never(m) == FALSE

\* display_recipient == EXCLUDED_STREAM and subject == EXCLUDED_TOPIC
Dn_IsExcluded(m) ==
    m.display_recipient = Dn_EXCLUDED_STREAM /\ m.subject = Dn_EXCLUDED_TOPIC

\* delete_old_direct_messages: every fetched message older than the cutoff
Dn_DirectQualifies(m, cutoff) == m.timestamp < cutoff

\* delete_old_stream_messages: skip the excluded stream/topic, then the cutoff
Dn_StreamQualifies(m, cutoff) == ~Dn_IsExcluded(m) /\ m.timestamp < cutoff

Dn_Qualifies(fn, m, cutoff) ==
    IF fn = "dm" THEN Dn_DirectQualifies(m, cutoff)
    ELSE Dn_StreamQualifies(m, cutoff)

\* the direct cutoff of alert.py used in delete_noti.py
Dn_DirectCutoff_48(now) == now - DM_DELETE_OLDER_THAN

Dn_DirectCutoff(now) == now - Dn_DM_DELETE_OLDER_THAN
Dn_StreamCutoff(now) == now - Dn_STREAM_DELETE_OLDER_THAN

Dn_Cutoff(fn, now) ==
    IF fn = "dm" THEN Dn_DirectCutoff(now) ELSE Dn_StreamCutoff(now)

\* the "is" operand of fetch_bot_direct_messages / fetch_bot_stream_messages
Dn_NarrowKind(fn) == IF fn = "dm" THEN "private" ELSE "stream"

Dn_Counted(outcome) == outcome = "success"

\* get_messages is called outside the try
Dn_FetchRaises_Uncaught(outcome) == outcome = "raise"

\* the fetchers and both delete loops wrap the remote call in
\* try / except Exception
Dn_FetchRaises(outcome) == FALSE
Dn_DeleteRaises(outcome) == FALSE

\* fetch_bot_direct_messages / fetch_bot_stream_messages: [] on a non-success
\* result or an exception
Dn_FetchResult(outcome, anchor, kind) ==
    IF outcome = "success" THEN GetMessages(anchor, kind) ELSE <<>>

\* a page of exactly the page size is taken for the last one
Dn_IsFinalPage_Inclusive(messages) == Len(messages) <= PageSize

Dn_IsFinalPage(messages) == Len(messages) < PageSize

-----------------------------------------------------------------------------
(* delete_noti.py: __main__ runs delete_old_direct_messages() and then       *)
(* delete_old_stream_messages(); sw[p].fn tells which of the two is running, *)
(* and total_deleted of each is kept in total_dm_deleted or                  *)
(* total_stream_deleted.                                                     *)

Dn_ResetTotal(s) ==
    IF s.fn = "dm" THEN [s EXCEPT !.total_dm_deleted = 0]
    ELSE [s EXCEPT !.total_stream_deleted = 0]

Dn_AddTotal(s, n) ==
    IF s.fn = "dm" THEN [s EXCEPT !.total_dm_deleted = @ + n]
    ELSE [s EXCEPT !.total_stream_deleted = @ + n]

\* now = datetime.now(); cutoff = now - ...; anchor = "newest"; total_deleted = 0
Dn_Start(p) ==
    /\ At(p, "delete_noti", "start")
    /\ Set(p, [Dn_ResetTotal(sw[p]) EXCEPT
                   !.pc = "fetch", !.anchor = Newest, !.now = clock,
                   !.cutoff = Dn_Cutoff(sw[p].fn, clock)])
    /\ UNCHANGED <<bg, env, trace, msgs, hist, clock, log, verdict>>

\* messages = fetch_bot_..._messages(anchor); if not messages: break;
\* oldest_id = messages[0]["id"]; batch_deleted = 0
Dn_Fetch(p) ==
    /\ At(p, "delete_noti", "fetch")
    /\ \E outcome \in Outcomes :
         LET page  == Dn_FetchResult(outcome, sw[p].anchor,
                                     Dn_NarrowKind(sw[p].fn))
             fetch == [Event("fetch", sw[p].fn) EXCEPT !.id = sw[p].anchor,
                           !.page = page, !.ok = (outcome = "success")]
             scan  == [Event("scan", sw[p].fn) EXCEPT !.page = page,
                           !.now = sw[p].now]
         IN
         IF Dn_FetchRaises(outcome)
         THEN /\ Set(p, [sw[p] EXCEPT !.pc = "raised"])
              /\ Log(p, <<fetch>>)
         ELSE IF page = <<>>
         THEN /\ Set(p, [sw[p] EXCEPT !.pc = "total", !.messages = page])
              /\ Log(p, <<fetch>>)
         ELSE /\ Set(p, [sw[p] EXCEPT !.pc = "loop", !.messages = page,
                                      !.oldest_id = page[1],
                                      !.deleted = 0, !.i = 1])
              /\ Log(p, <<fetch, scan>>)
    /\ UNCHANGED <<bg, env, trace, msgs, hist, clock, verdict>>

Dn_LoopSkip(p) ==
    /\ At(p, "delete_noti", "loop")
    /\ sw[p].i <= Len(sw[p].messages)
    /\ ~Dn_Qualifies(sw[p].fn, msgs[Visit(sw[p].messages, sw[p].i)], sw[p].cutoff)
    /\ Set(p, [sw[p] EXCEPT !.i = @ + 1])
    /\ UNCHANGED <<bg, env, trace, msgs, hist, clock, log, verdict>>

\* time.sleep(0.15) before the DELETE
Dn_LoopSleep(p) ==
    /\ At(p, "delete_noti", "loop")
    /\ sw[p].i <= Len(sw[p].messages)
    /\ Dn_Qualifies(sw[p].fn, msgs[Visit(sw[p].messages, sw[p].i)], sw[p].cutoff)
    /\ Set(p, [sw[p] EXCEPT !.pc = "call"])
    /\ Log(p, Sleep(sw[p].fn, Visit(sw[p].messages, sw[p].i)))
    /\ clock' \in Elapse
    /\ UNCHANGED <<bg, env, trace, msgs, hist, verdict>>

\* client.call_endpoint(url=/messages/{msg_id}, method=DELETE) in a try
Dn_LoopCall(p) ==
    /\ At(p, "delete_noti", "call")
    /\ LET id == Visit(sw[p].messages, sw[p].i) IN
       \E outcome \in DeleteOutcomes(id) :
         /\ hist' = IF outcome = "success" THEN hist \ {id} ELSE hist
         /\ Log(p, <<[Event("delete", sw[p].fn) EXCEPT !.id = id,
                          !.ok = (outcome = "success")]>>)
         /\ IF Dn_DeleteRaises(outcome)
            THEN Set(p, [sw[p] EXCEPT !.pc = "raised"])
            ELSE Set(p, [sw[p] EXCEPT !.pc = "loop", !.i = @ + 1,
                           !.deleted = IF Dn_Counted(outcome) THEN @ + 1 ELSE @])
    /\ UNCHANGED <<bg, env, trace, msgs, clock, verdict>>

\* total_deleted += batch_deleted; anchor = oldest_id;
\* if len(messages) < 200: break
Dn_EndBatch(p) ==
    /\ At(p, "delete_noti", "loop")
    /\ sw[p].i > Len(sw[p].messages)
    /\ Set(p, [Dn_AddTotal(sw[p], sw[p].deleted) EXCEPT
                   !.anchor = sw[p].oldest_id,
                   !.pc = IF Dn_IsFinalPage(sw[p].messages)
                          THEN "total" ELSE "wait"])
    /\ UNCHANGED <<bg, env, trace, msgs, hist, clock, log, verdict>>

\* time.sleep(60) between batches
Dn_PageWait(p) ==
    /\ At(p, "delete_noti", "wait")
    /\ Set(p, [sw[p] EXCEPT !.pc = "fetch"])
    /\ Log(p, <<Event("wait", sw[p].fn)>>)
    /\ clock' \in Elapse
    /\ UNCHANGED <<bg, env, trace, msgs, hist, verdict>>

\* print the total; in __main__ the direct sweep is followed by the stream sweep
Dn_Total(p) ==
    /\ At(p, "delete_noti", "total")
    /\ Log(p, <<[Event("total", sw[p].fn) EXCEPT
                     !.dm = sw[p].total_dm_deleted,
                     !.stream = sw[p].total_stream_deleted]>>)
    /\ Set(p, IF sw[p].fn = "dm"
              THEN [sw[p] EXCEPT !.pc = "start", !.fn = "stream"]
              ELSE [sw[p] EXCEPT !.pc = "done"])
    /\ UNCHANGED <<bg, env, trace, msgs, hist, clock, verdict>>

-----------------------------------------------------------------------------
(* Specification of one sweep run over every bounded history *)

Impls == {"alert", "delete_noti"}

NoVerdict == [by |-> "none", delete |-> FALSE]

\* no background routine is running
NoBackground == bg = <<>> /\ env = <<>> /\ trace = <<>>

Init ==
    /\ msgs \in Histories
    /\ hist = DOMAIN msgs
    /\ clock = StartClock
    /\ \E impl \in Impls : sw = [p \in {1} |-> InitSweep(impl)]
    /\ log = [p \in {1} |-> <<>>]
    /\ verdict = NoVerdict
    /\ NoBackground

Next ==
    \/ \E p \in DOMAIN sw : Start(p)
    \/ \E p \in DOMAIN sw : Fetch(p)
    \/ \E p \in DOMAIN sw : LoopSkip(p)
    \/ \E p \in DOMAIN sw : LoopSleep(p)
    \/ \E p \in DOMAIN sw : LoopCall(p)
    \/ \E p \in DOMAIN sw : DirectReturn(p)
    \/ \E p \in DOMAIN sw : StreamReturn(p)
    \/ \E p \in DOMAIN sw : PageWait(p)
    \/ \E p \in DOMAIN sw : Summary(p)
    \/ \E p \in DOMAIN sw : Dn_Start(p)
    \/ \E p \in DOMAIN sw : Dn_Fetch(p)
    \/ \E p \in DOMAIN sw : Dn_LoopSkip(p)
    \/ \E p \in DOMAIN sw : Dn_LoopSleep(p)
    \/ \E p \in DOMAIN sw : Dn_LoopCall(p)
    \/ \E p \in DOMAIN sw : Dn_EndBatch(p)
    \/ \E p \in DOMAIN sw : Dn_PageWait(p)
    \/ \E p \in DOMAIN sw : Dn_Total(p)

Spec == Init /\ [][Next]_vars

\* the sweep is one synchronous thread: it always takes its next step
FairSpec == Spec /\ WF_vars(Next)

-----------------------------------------------------------------------------
(* Specifications of the cleanup endpoint of alert.py requested more than    *)
(* once: every GET /deletenoti8221 calls run_delete_noti, whose anchor and   *)
(* totals are local variables                                                *)

\* a further request once the previous one has been answered
Invoke ==
    /\ Len(sw) < MaxRuns
    /\ \A p \in DOMAIN sw : sw[p].pc = "done"
    /\ sw' = [p \in 1..(Len(sw) + 1) |->
                IF p \in DOMAIN sw THEN sw[p] ELSE InitSweep("alert")]
    /\ log' = [p \in 1..(Len(sw) + 1) |->
                IF p \in DOMAIN sw THEN log[p] ELSE <<>>]
    /\ UNCHANGED <<bg, env, trace, msgs, hist, clock, verdict>>

SeqInit ==
    /\ msgs \in Histories
    /\ hist = DOMAIN msgs
    /\ clock = StartClock
    /\ sw = [p \in {1} |-> InitSweep("alert")]
    /\ log = [p \in {1} |-> <<>>]
    /\ verdict = NoVerdict
    /\ NoBackground

SeqNext ==
    \/ \E p \in DOMAIN sw : Start(p)
    \/ \E p \in DOMAIN sw : Fetch(p)
    \/ \E p \in DOMAIN sw : LoopSkip(p)
    \/ \E p \in DOMAIN sw : LoopSleep(p)
    \/ \E p \in DOMAIN sw : LoopCall(p)
    \/ \E p \in DOMAIN sw : DirectReturn(p)
    \/ \E p \in DOMAIN sw : StreamReturn(p)
    \/ \E p \in DOMAIN sw : PageWait(p)
    \/ \E p \in DOMAIN sw : Summary(p)
    \/ Invoke

SeqSpec == SeqInit /\ [][SeqNext]_vars

\* two requests in flight at once: the endpoint is a plain def, which the
\* server runs in worker threads, and nothing serialises the calls
ConcProcs == {1, 2}

\* the messages the two requests race for: a direct and a channel message
\* past their maximum age, a young direct message and an exempt one
ConcCatalog ==
    { Message("private", "users", "", BOT_SENDER, 50),
      Message("private", "users", "", BOT_SENDER, 1),
      Message("stream", "spring", "misc", BOT_SENDER, 80),
      Message("stream", "spring", "Txt", BOT_SENDER, 80) }

ConcHistories == { h \in Histories : Range(h) \subseteq ConcCatalog }

\* both requests are served within the same clock hour, the last one of the
\* model: the clock does not advance while they run
ConcInit ==
    /\ msgs \in ConcHistories
    /\ hist = DOMAIN msgs
    /\ clock = StartClock + MaxTicks
    /\ sw = [p \in ConcProcs |-> InitSweep("alert")]
    /\ log = [p \in ConcProcs |-> <<>>]
    /\ verdict = NoVerdict
    /\ NoBackground

ConcNext ==
    \/ \E p \in DOMAIN sw : Start(p)
    \/ \E p \in DOMAIN sw : Fetch(p)
    \/ \E p \in DOMAIN sw : LoopSkip(p)
    \/ \E p \in DOMAIN sw : LoopSleep(p)
    \/ \E p \in DOMAIN sw : LoopCall(p)
    \/ \E p \in DOMAIN sw : DirectReturn(p)
    \/ \E p \in DOMAIN sw : StreamReturn(p)
    \/ \E p \in DOMAIN sw : PageWait(p)
    \/ \E p \in DOMAIN sw : Summary(p)

\* the next step of invocation p
SweepStep(p) ==
    \/ Start(p) \/ Fetch(p) \/ LoopSkip(p) \/ LoopSleep(p) \/ LoopCall(p)
    \/ DirectReturn(p) \/ StreamReturn(p) \/ PageWait(p) \/ Summary(p)

ConcSpec == ConcInit /\ [][ConcNext]_vars

\* each request runs in a thread of its own, which always takes its next step
ConcFairSpec == ConcSpec /\ \A p \in ConcProcs : WF_vars(SweepStep(p))

-----------------------------------------------------------------------------
(* Specification of the delete / keep decision alone: one message, one clock *)
(* reading, and the decision each sweeper takes for it                       *)

ClassifyAges == {0, 23, 24, 25, 47, 48, 49, 71, 72, 73, 240}

ClassifyMsgs ==
    { Message("private", "users", "", BOT_SENDER, a) : a \in ClassifyAges }
    \cup { Message("stream", r, t, BOT_SENDER, a) :
              r \in {"spring", "general"}, t \in {"Txt", "misc"},
              a \in ClassifyAges }

\* run_delete_noti hands every fetched message to both delete loops
SendsDelete(m, now) ==
    /\ MatchesNarrow(m, "any")
    /\ \/ DirectQualifies(m, DirectCutoff(now))
       \/ StreamQualifies(m, StreamCutoff(now))

\* delete_noti.py hands each loop the messages of its own narrow
Dn_SendsDelete(m, now) ==
    \/ /\ MatchesNarrow(m, Dn_NarrowKind("dm"))
       /\ Dn_Qualifies("dm", m, Dn_Cutoff("dm", now))
    \/ /\ MatchesNarrow(m, Dn_NarrowKind("stream"))
       /\ Dn_Qualifies("stream", m, Dn_Cutoff("stream", now))

ClassifyInit ==
    /\ \E m \in ClassifyMsgs : msgs = <<m>>
    /\ hist = DOMAIN msgs
    /\ clock \in StartClock..(StartClock + MaxTicks)
    /\ sw = <<>>
    /\ log = <<>>
    /\ verdict = NoVerdict
    /\ NoBackground

Classify ==
    /\ verdict.by = "none"
    /\ verdict' = [by |-> "alert", delete |-> SendsDelete(msgs[1], clock)]
    /\ UNCHANGED <<bg, env, trace, msgs, hist, clock, sw, log>>

Dn_Classify ==
    /\ verdict.by = "none"
    /\ verdict' = [by |-> "delete_noti",
                   delete |-> Dn_SendsDelete(msgs[1], clock)]
    /\ UNCHANGED <<bg, env, trace, msgs, hist, clock, sw, log>>

ClassifyNext == Classify \/ Dn_Classify

SpecClassify == ClassifyInit /\ [][ClassifyNext]_vars

-----------------------------------------------------------------------------
(* Vocabulary of the properties *)

\* the sweeps an invocation runs: run_delete_noti is one sweep over every
\* kind; delete_noti.py runs a direct sweep and then a stream sweep
Sweeps(p) == IF sw[p].impl = "alert" THEN {"all"} ELSE {"dm", "stream"}

SweepOf(p, e) == IF sw[p].impl = "alert" THEN "all" ELSE e.fn

\* positions in the log of the events of one sweep, by kind of event
EventsOf(p, k, evs) ==
    { j \in DOMAIN log[p] : log[p][j].ev \in evs /\ SweepOf(p, log[p][j]) = k }

Fetches(p, k) == EventsOf(p, k, {"fetch"})
Deletes(p, k) == EventsOf(p, k, {"delete"})

\* the sweep has reached DONE: its summary (or printed total) is in the log
SweepDone(p, k) == EventsOf(p, k, {"summary", "total"}) # {}

\* the messages a sweep ranges over: authored by the bot, of the sweep's kind
KindOf(m) == IF m.type = "private" THEN "dm" ELSE "stream"
InScope(m, k) == m.sender = BOT_SENDER /\ (k = "all" \/ KindOf(m) = k)
HistoryOf(k) == { id \in DOMAIN msgs : InScope(msgs[id], k) }

CeilDiv(a, b) == (a + b - 1) \div b

-----------------------------------------------------------------------------
(* C1 *)

C1_FetchBound ==
    \A p \in DOMAIN sw : \A k \in Sweeps(p) :
        Cardinality(Fetches(p, k))
            <= CeilDiv(Cardinality(HistoryOf(k)), PageSize) + 1

C1_AllDone == \A p \in DOMAIN sw : sw[p].pc = "done"

\* C1: whatever the history and whichever deletes fail, every sweep reaches
\* DONE, and it never issues more than ceil(history size / page size) + 1
\* page fetches.
C1_Termination == [] C1_FetchBound /\ <> C1_AllDone

\* a finished sweep that needed three fetches, the most its history allows,
\* and in which a delete failed
C1_Witness ==
    \E p \in DOMAIN sw : \E k \in Sweeps(p) :
        /\ sw[p].pc = "done"
        /\ Cardinality(Fetches(p, k)) = 3
        /\ Cardinality(Fetches(p, k))
               = CeilDiv(Cardinality(HistoryOf(k)), PageSize) + 1
        /\ \E j \in Deletes(p, k) : ~log[p][j].ok

-----------------------------------------------------------------------------
(* The retention policy as the specification states it *)

ExemptionSet == { <<"spring", "Txt">> }

Exempt(m) ==
    m.type = "stream" /\ <<m.display_recipient, m.subject>> \in ExemptionSet

\* direct: 48 hours; channel: 3 days
SpecMaxAge(kind) == IF kind = "dm" THEN 48 ELSE 72

\* the maximum ages each program applies: delete_noti.py keeps direct
\* messages for 24 hours only
MaxAgeOf(impl, kind) ==
    IF kind = "stream" THEN 72 ELSE IF impl = "alert" THEN 48 ELSE 24

Age(m, now) == now - m.timestamp

-----------------------------------------------------------------------------
(* C2 *)

\* C2: no sweep ever sends a delete request for a channel message of the
\* exempt channel/topic ("spring", "Txt"), and such a message is never removed,
\* whatever its age and whichever page holds it.
C2_ExemptNeverDeleted ==
    /\ \A p \in DOMAIN sw : \A j \in DOMAIN log[p] :
          log[p][j].ev \in {"sleep", "delete"} => ~Exempt(msgs[log[p][j].id])
    /\ \A id \in DOMAIN msgs : Exempt(msgs[id]) => id \in hist

\* a finished sweep whose second page held an exempt message past the
\* channel cutoff, scanned by the stream loop
C2_Witness ==
    \E p \in DOMAIN sw : \E j \in DOMAIN log[p] :
        /\ sw[p].pc = "done"
        /\ log[p][j].ev = "scan" /\ log[p][j].fn = "stream"
        /\ \E w \in 1..(j - 1) : log[p][w].ev = "wait"
        /\ \E id \in Range(log[p][j].page) :
              Exempt(msgs[id]) /\ Age(msgs[id], log[p][j].now) > 72

-----------------------------------------------------------------------------
(* C3 *)

\* C3: run_delete_noti's decision for a message is delete if and only if the
\* message is not exempt and its age is strictly greater than the maximum age
\* of its kind; at exactly the maximum age, younger, or exempt, it is kept.
C3_Classifier ==
    verdict.by = "alert" =>
        (verdict.delete <=>
            /\ ~Exempt(msgs[1])
            /\ Age(msgs[1], clock) > SpecMaxAge(KindOf(msgs[1])))

\* a direct message of exactly the maximum age, classified and kept
C3_Witness ==
    /\ verdict.by = "alert"
    /\ msgs[1].type = "private"
    /\ Age(msgs[1], clock) = 48
    /\ ~verdict.delete

-----------------------------------------------------------------------------
(* C4 *)

\* C4 as claimed: every sweeper applies 48 hours to direct messages and
\* 3 days to channel messages.
C4_SamePolicyEverywhere ==
    verdict.by # "none" =>
        (verdict.delete <=>
            /\ ~Exempt(msgs[1])
            /\ Age(msgs[1], clock) > SpecMaxAge(KindOf(msgs[1])))

\* C4 amended: run_delete_noti applies 48 hours to direct messages and
\* delete_noti.py applies 24 hours; both apply 3 days to channel messages.
\* A direct message aged between 24h and 48h is kept by run_delete_noti and
\* deleted by delete_noti.py.
C4_PolicyPerSweeper ==
    /\ verdict.by # "none" =>
          (verdict.delete <=>
              /\ ~Exempt(msgs[1])
              /\ Age(msgs[1], clock) > MaxAgeOf(verdict.by, KindOf(msgs[1])))
    /\ (/\ msgs[1].type = "private"
        /\ Age(msgs[1], clock) > 24
        /\ Age(msgs[1], clock) <= 48
        /\ verdict.by # "none")
       => (verdict.delete <=> verdict.by = "delete_noti")

\* delete_noti.py decides to delete a direct message aged between 24h and 48h
C4_Witness ==
    /\ verdict.by = "delete_noti"
    /\ msgs[1].type = "private"
    /\ Age(msgs[1], clock) > 24
    /\ Age(msgs[1], clock) <= 48
    /\ verdict.delete

-----------------------------------------------------------------------------
(* C5 *)

\* the value of a sweep's counter at this point: the running total plus the
\* count of the delete loop that is still running
InLoop(p, fn) == sw[p].fn = fn /\ sw[p].pc \in {"loop", "call"}

DirectDeleted(p) ==
    sw[p].total_dm_deleted + (IF InLoop(p, "dm") THEN sw[p].deleted ELSE 0)

StreamDeleted(p) ==
    sw[p].total_stream_deleted
        + (IF InLoop(p, "stream") THEN sw[p].deleted ELSE 0)

\* delete requests of invocation p for messages of one kind that succeeded
ConfirmedDeletes(p, kind) ==
    { j \in DOMAIN log[p] :
        /\ log[p][j].ev = "delete"
        /\ log[p][j].ok
        /\ KindOf(msgs[log[p][j].id]) = kind }

\* C5: at every point of a sweep direct_deleted is the number of direct
\* messages whose delete request returned success and channel_deleted the
\* number of channel messages whose delete request returned success; a failed
\* delete increments neither, and no message increments the other kind's counter.
C5_CountersCountConfirmedDeletes ==
    \A p \in DOMAIN sw :
        /\ DirectDeleted(p) = Cardinality(ConfirmedDeletes(p, "dm"))
        /\ StreamDeleted(p) = Cardinality(ConfirmedDeletes(p, "stream"))

\* a finished sweep with a failed delete and a confirmed delete of each kind
C5_Witness ==
    \E p \in DOMAIN sw :
        /\ sw[p].pc = "done"
        /\ \E j \in DOMAIN log[p] : log[p][j].ev = "delete" /\ ~log[p][j].ok
        /\ ConfirmedDeletes(p, "dm") # {}
        /\ ConfirmedDeletes(p, "stream") # {}

-----------------------------------------------------------------------------
(* C6 *)

\* the messages invocation p has fetched so far
FetchedBy(p) ==
    UNION { Range(log[p][j].page) :
              j \in { i \in DOMAIN log[p] : log[p][i].ev = "fetch" } }

\* fetched messages of one kind that the sweeper's retention policy marks
\* for deletion (not exempt, older than the maximum age of the kind)
QualifyingFetched(p, kind) ==
    { id \in FetchedBy(p) :
        /\ KindOf(msgs[id]) = kind
        /\ ~Exempt(msgs[id])
        /\ Age(msgs[id], clock) > MaxAgeOf(sw[p].impl, kind) }

C6_Bounded ==
    \A p \in DOMAIN sw :
        /\ DirectDeleted(p) <= Cardinality(QualifyingFetched(p, "dm"))
        /\ StreamDeleted(p) <= Cardinality(QualifyingFetched(p, "stream"))

C6_NonDecreasing ==
    \A p \in DOMAIN sw :
        /\ DirectDeleted(p)' >= DirectDeleted(p)
        /\ StreamDeleted(p)' >= StreamDeleted(p)

\* C6: across the whole run neither counter ever decreases, and at every point
\* each is at most the number of distinct delete-qualifying messages of its
\* kind fetched so far.
C6_CounterMonotonicity == [] C6_Bounded /\ [][C6_NonDecreasing]_vars

\* a counter has reached 2 over two pages, with a failed delete in between
C6_Witness ==
    \E p \in DOMAIN sw :
        /\ DirectDeleted(p) + StreamDeleted(p) = 2
        /\ \E j \in DOMAIN log[p] : log[p][j].ev = "wait"
        /\ \E j \in DOMAIN log[p] : log[p][j].ev = "delete" /\ ~log[p][j].ok

-----------------------------------------------------------------------------
(* C7 *)

\* no fetch and no delete of invocation p has failed
NoFailure(p) ==
    \A j \in DOMAIN log[p] : log[p][j].ev \in {"fetch", "delete"} => log[p][j].ok

\* the clock readings under which a delete loop of kind fn examined message id
ExaminedAt(p, fn, id) ==
    { log[p][j].now :
        j \in { i \in DOMAIN log[p] :
                  /\ log[p][i].ev = "scan"
                  /\ log[p][i].fn = fn
                  /\ id \in Range(log[p][i].page) } }

\* messages of one kind in the history that were older than the cutoff of
\* their kind when the sweep examined them, exempt ones excluded
OlderThanCutoff(p, kind) ==
    { id \in HistoryOf("all") :
        /\ KindOf(msgs[id]) = kind
        /\ ~Exempt(msgs[id])
        /\ \E now \in ExaminedAt(p, kind, id) :
              Age(msgs[id], now) > SpecMaxAge(kind) }

\* C7: when no fetch and no delete fails, run_delete_noti examines every
\* message of the history, returns direct_deleted equal to the number of direct
\* messages older than the direct cutoff and channel_deleted equal to the number
\* of non-exempt channel messages older than the channel cutoff, and has
\* deleted exactly those messages.
C7_ExactCounts ==
    \A p \in DOMAIN sw :
        (sw[p].impl = "alert" /\ sw[p].pc = "done" /\ NoFailure(p)) =>
            /\ \A id \in HistoryOf("all") :
                  ExaminedAt(p, KindOf(msgs[id]), id) # {}
            /\ sw[p].total_dm_deleted = Cardinality(OlderThanCutoff(p, "dm"))
            /\ sw[p].total_stream_deleted
                   = Cardinality(OlderThanCutoff(p, "stream"))
            /\ hist = DOMAIN msgs
                        \ (OlderThanCutoff(p, "dm") \cup OlderThanCutoff(p, "stream"))

\* the scenario of the specification: direct messages aged 1h, 50h and 72h,
\* swept without failure; the 50h and 72h messages are gone and the count is 2
C7_Witness ==
    \E p \in DOMAIN sw :
        /\ sw[p].impl = "alert" /\ sw[p].pc = "done" /\ NoFailure(p)
        /\ Len(msgs) = 3
        /\ \A id \in 1..3 : msgs[id].type = "private" /\ msgs[id].sender = BOT_SENDER
        /\ Age(msgs[1], StartClock) = 72
        /\ Age(msgs[2], StartClock) = 50
        /\ Age(msgs[3], StartClock) = 1
        /\ hist = {3}
        /\ sw[p].total_dm_deleted = 2

-----------------------------------------------------------------------------
(* C8 *)

\* what the sweeper's policy asks for a message read at clock value now
ShouldDelete(impl, m, now) ==
    ~Exempt(m) /\ Age(m, now) > MaxAgeOf(impl, KindOf(m))

\* the delete loops run on a page after position j of the log, up to the
\* next fetch
ScansAfter(p, j) ==
    { i \in DOMAIN log[p] :
        /\ i > j
        /\ log[p][i].ev = "scan"
        /\ \A f \in (j + 1)..i : log[p][f].ev # "fetch" }

\* message id of the page fetched at position j was examined by the loop of
\* its kind and, when the policy asks for it, sent a delete request
Processed(p, j, id) ==
    \E i \in ScansAfter(p, j) :
        /\ log[p][i].fn = KindOf(msgs[id])
        /\ id \in Range(log[p][i].page)
        /\ ShouldDelete(sw[p].impl, msgs[id], log[p][i].now) =>
              \E d \in DOMAIN log[p] :
                  d > i /\ log[p][d].ev = "delete" /\ log[p][d].id = id

ShortPage(page) == Len(page) < PageSize

\* C8: a sweep stops fetching exactly when a fetch returns an empty page or a
\* page shorter than the page size: no fetch follows a short page, a short
\* non-empty page is fully processed before DONE, and DONE is never reached
\* with a full page as the last one fetched.
C8_DoneCondition ==
    \A p \in DOMAIN sw : \A k \in Sweeps(p) : \A j \in Fetches(p, k) :
        LET last == \A f \in Fetches(p, k) : f <= j IN
        /\ ShortPage(log[p][j].page) => last
        /\ (SweepDone(p, k) /\ last) =>
              /\ ShortPage(log[p][j].page)
              /\ \A id \in Range(log[p][j].page) : Processed(p, j, id)

\* a finished sweep: a full page, then a short non-empty page on which a
\* delete was requested
C8_Witness ==
    \E p \in DOMAIN sw : \E k \in Sweeps(p) : \E j \in Fetches(p, k) :
        /\ SweepDone(p, k)
        /\ \E f \in Fetches(p, k) : f < j /\ ~ShortPage(log[p][f].page)
        /\ log[p][j].page # <<>> /\ ShortPage(log[p][j].page)
        /\ \E d \in Deletes(p, k) : d > j

-----------------------------------------------------------------------------
(* C9 *)

\* what a finished sweep reports for one kind: the summary of run_delete_noti
\* or the total the sweep of delete_noti.py prints
Reported(p, k, kind) ==
    { IF kind = "dm" THEN log[p][j].dm ELSE log[p][j].stream :
        j \in EventsOf(p, k, {"summary", "total"}) }

KindsOf(k) == IF k = "all" THEN {"dm", "stream"} ELSE {k}

\* C9: a failed page fetch yields an empty page and no exception; the sweep
\* issues no further fetch, sleep or delete, and goes to DONE reporting the
\* counters gathered from the pages before the failure.
C9_FetchFailureIsExhaustion ==
    \A p \in DOMAIN sw :
        /\ sw[p].pc # "raised"
        /\ \A k \in Sweeps(p) : \A j \in Fetches(p, k) :
              ~log[p][j].ok =>
                  /\ log[p][j].page = <<>>
                  /\ EventsOf(p, k, {"fetch", "scan", "sleep", "delete", "wait"})
                         \subseteq 1..j
                  /\ IF SweepDone(p, k)
                     THEN \A kind \in KindsOf(k) :
                            Reported(p, k, kind) =
                              { Cardinality({ d \in ConfirmedDeletes(p, kind) :
                                                d < j }) }
                     ELSE sw[p].pc \in {"summary", "total"}

\* a finished sweep whose second fetch failed after a page with a confirmed
\* delete
C9_Witness ==
    \E p \in DOMAIN sw : \E k \in Sweeps(p) : \E j \in Fetches(p, k) :
        /\ SweepDone(p, k)
        /\ ~log[p][j].ok
        /\ \E d \in Deletes(p, k) : d < j /\ log[p][d].ok

-----------------------------------------------------------------------------
(* C10 *)

\* the delete loop that issued the request at position d: its scan entry
LoopOf(p, d) ==
    CHOOSE i \in DOMAIN log[p] :
        /\ i < d /\ log[p][i].ev = "scan"
        /\ \A x \in (i + 1)..d : log[p][x].ev # "scan"

\* the loop entered at position i has run to its end
LoopEnded(p, i) ==
    \/ \E x \in DOMAIN log[p] :
          x > i /\ log[p][x].ev \in {"scan", "fetch", "wait", "summary", "total"}
    \/ sw[p].pc \notin {"loop", "call"}

\* C10: after a delete request that fails the sweep goes on: every later record
\* of the page is still examined and, if it qualifies, sent a delete request;
\* after a full page the next page is still fetched; and the failed request is
\* not counted in the result.
C10_DeleteFailureIsSoft ==
    \A p \in DOMAIN sw :
        /\ sw[p].pc # "raised"
        /\ \A d \in DOMAIN log[p] :
              (log[p][d].ev = "delete" /\ ~log[p][d].ok) =>
                LET i    == LoopOf(p, d)
                    page == log[p][i].page
                    k    == SweepOf(p, log[p][d])
                IN
                /\ LoopEnded(p, i) =>
                      \A n \in DOMAIN page :
                          (/\ \E m \in 1..(n - 1) : page[m] = log[p][d].id
                           /\ ShouldDelete(sw[p].impl, msgs[page[n]], log[p][i].now)
                           /\ KindOf(msgs[page[n]]) = log[p][i].fn)
                          => \E x \in DOMAIN log[p] :
                                x > d /\ log[p][x].ev = "delete"
                                      /\ log[p][x].id = page[n]
                /\ (SweepDone(p, k) /\ ~ShortPage(page)) =>
                      \E f \in Fetches(p, k) : f > d
                /\ SweepDone(p, k) =>
                      \A kind \in KindsOf(k) :
                          Reported(p, k, kind) =
                              { Cardinality(ConfirmedDeletes(p, kind)) }

\* a finished sweep in which a delete failed, a later record of the same page
\* was deleted, and a further page was fetched
C10_Witness ==
    \E p \in DOMAIN sw : \E d \in DOMAIN log[p] :
        /\ sw[p].pc = "done"
        /\ log[p][d].ev = "delete" /\ ~log[p][d].ok
        /\ \E x \in DOMAIN log[p] :
              /\ x > d /\ log[p][x].ev = "delete" /\ log[p][x].ok
              /\ \A y \in d..x : log[p][y].ev \notin {"fetch", "scan"}
        /\ \E f \in DOMAIN log[p] :
              f > d /\ log[p][f].ev = "fetch" /\ log[p][f].page # <<>>

-----------------------------------------------------------------------------
(* C11 *)

\* the messages invocation p has deleted: its delete request returned success
DeletedBy(p) ==
    { log[p][j].id : j \in ConfirmedDeletes(p, "dm") \cup ConfirmedDeletes(p, "stream") }

\* the messages invocation p has sent a sleep or a delete request for
RequestedBy(p) ==
    { log[p][j].id :
        j \in { i \in DOMAIN log[p] : log[p][i].ev \in {"sleep", "delete"} } }

\* C11: when the cleanup runs twice in succession over a history that gets no
\* new message, no message the first run deleted is fetched, sent a delete
\* request or counted by the second run: the second run's counters count
\* only messages that were still there when it started, and are {0, 0} when
\* the first run left nothing behind.
C11_Idempotence ==
    \A p \in DOMAIN sw : \A q \in DOMAIN sw :
        p < q =>
            /\ DeletedBy(p) \cap FetchedBy(q) = {}
            /\ DeletedBy(p) \cap RequestedBy(q) = {}
            /\ DirectDeleted(q)
                  = Cardinality({ id \in DeletedBy(q) \ DeletedBy(p) :
                                    KindOf(msgs[id]) = "dm" })
            /\ StreamDeleted(q)
                  = Cardinality({ id \in DeletedBy(q) \ DeletedBy(p) :
                                    KindOf(msgs[id]) = "stream" })
            /\ (sw[q].pc = "done" /\ DeletedBy(p) = HistoryOf("all")) =>
                  Result(sw[q]) = [dm_deleted |-> 0, stream_deleted |-> 0]

\* two finished runs: the first deleted a message of a full page and failed
\* on another one, which the second run fetched again and deleted
C11_Witness ==
    /\ Len(sw) = 2
    /\ sw[2].pc = "done"
    /\ DeletedBy(1) # {}
    /\ \E j \in Fetches(1, "all") : ~ShortPage(log[1][j].page)
    /\ \E id \in RequestedBy(1) \ DeletedBy(1) : id \in DeletedBy(2)
    /\ Result(sw[2]).dm_deleted + Result(sw[2]).stream_deleted = 1

\* two finished runs: the first deleted the whole history, the second found
\* nothing and returned {0, 0}
C11_WitnessEmpty ==
    /\ Len(sw) = 2
    /\ sw[2].pc = "done"
    /\ DeletedBy(1) = HistoryOf("all")
    /\ Cardinality(DeletedBy(1)) = MaxMsgs

-----------------------------------------------------------------------------
(* C12 *)

\* a remote call of invocation p of the given kind has failed
Failed(p, ev) == \E j \in DOMAIN log[p] : log[p][j].ev = ev /\ ~log[p][j].ok

\* C12: whichever fetches, deletes and summary sends fail, by an error result
\* or by an exception, run_delete_noti never raises: it returns both counters,
\* and the endpoint answers "cleanup completed" with the two counts.
C12_NoExceptionToCaller ==
    \A p \in DOMAIN sw :
        sw[p].impl = "alert" =>
            /\ sw[p].pc # "raised"
            /\ sw[p].pc = "done" =>
                  Response(Result(sw[p])) =
                      [status |-> "cleanup completed",
                       dm_deleted |-> Cardinality(ConfirmedDeletes(p, "dm")),
                       stream_deleted |->
                           Cardinality(ConfirmedDeletes(p, "stream"))]

\* a run that has returned after a failed delete, a failed fetch and a failed
\* summary send, with a confirmed delete in its counts
C12_Witness ==
    \E p \in DOMAIN sw :
        /\ sw[p].impl = "alert" /\ sw[p].pc = "done"
        /\ Failed(p, "delete") /\ Failed(p, "fetch") /\ Failed(p, "summary")
        /\ Response(Result(sw[p])).dm_deleted
              + Response(Result(sw[p])).stream_deleted > 0

-----------------------------------------------------------------------------
(* C13 *)

\* positions in the log at which invocation p called send_cleanup_summary
Summaries(p) == EventsOf(p, "all", {"summary"})

\* C13: run_delete_noti calls the summary notifier exactly once, as its last
\* step: after its last page, a short or empty one, has been processed and
\* with nothing after it, reporting the counters it then returns; an invocation
\* that has not got there has sent no summary.
C13_SummaryOnlyAtDone ==
    \A p \in DOMAIN sw :
        sw[p].impl = "alert" =>
            /\ Cardinality(Summaries(p)) = (IF sw[p].pc = "done" THEN 1 ELSE 0)
            /\ \A j \in Summaries(p) :
                  /\ j = Len(log[p])
                  /\ log[p][j].dm = Result(sw[p]).dm_deleted
                  /\ log[p][j].stream = Result(sw[p]).stream_deleted
                  /\ \E f \in Fetches(p, "all") :
                        /\ \A g \in Fetches(p, "all") : g <= f
                        /\ ShortPage(log[p][f].page)
                        /\ \A id \in Range(log[p][f].page) : Processed(p, f, id)

\* a finished run of two pages whose summary reports a direct and a channel
\* message, one deleted on each page
C13_Witness ==
    \E p \in DOMAIN sw : \E j \in Summaries(p) :
        /\ sw[p].pc = "done"
        /\ log[p][j].dm = 1 /\ log[p][j].stream = 1
        /\ \E w \in 1..j : \E a \in 1..(w - 1) : \E b \in (w + 1)..j :
              /\ log[p][w].ev = "wait"
              /\ log[p][a].ev = "delete" /\ log[p][a].ok
              /\ log[p][b].ev = "delete" /\ log[p][b].ok

-----------------------------------------------------------------------------
(* C14 *)

BotAuthored(id) == msgs[id].sender = BOT_SENDER

\* C14: every page a sweep fetches holds bot-authored messages only, every
\* sleep and delete request is for a bot-authored message, and a message of
\* any other sender stays on the server whatever its age.
C14_OnlyBotAuthored ==
    /\ \A p \in DOMAIN sw :
          /\ \A id \in FetchedBy(p) \cup RequestedBy(p) : BotAuthored(id)
          /\ \A id \in Range(sw[p].messages) : BotAuthored(id)
    /\ \A id \in DOMAIN msgs : ~BotAuthored(id) => id \in hist

\* a finished sweep without failures over a history in which a message of
\* another sender, older than every cutoff, lies between two bot messages
\* that were deleted
C14_Witness ==
    \E p \in DOMAIN sw : \E id \in DOMAIN msgs :
        /\ sw[p].pc = "done" /\ NoFailure(p)
        /\ ~BotAuthored(id)
        /\ Age(msgs[id], StartClock) > 72
        /\ id \in hist
        /\ \E a \in DeletedBy(p) : a < id
        /\ \E b \in DeletedBy(p) : b > id

-----------------------------------------------------------------------------
(* C15 *)

\* no fetch and no delete of sweep k of invocation p has failed
NoFailureIn(p, k) ==
    \A j \in EventsOf(p, k, {"fetch", "delete"}) : log[p][j].ok

\* C15: when a sweep reaches DONE and none of its fetches and deletes has
\* failed, every bot-authored message of its scope that is still on the server
\* was examined by the delete loop of its kind and did not qualify under the
\* clock reading of that examination (exempt, or not older than the cutoff of
\* its kind); so no message that qualified when the sweep started remains,
\* over however many pages the history spans.
C15_Exhaustive ==
    \A p \in DOMAIN sw : \A k \in Sweeps(p) :
        (SweepDone(p, k) /\ NoFailureIn(p, k)) =>
            \A id \in HistoryOf(k) \cap hist :
                /\ ExaminedAt(p, KindOf(msgs[id]), id) # {}
                /\ \A now \in ExaminedAt(p, KindOf(msgs[id]), id) :
                      now >= StartClock
                /\ ~ShouldDelete(sw[p].impl, msgs[id], StartClock)
                /\ \A now \in ExaminedAt(p, KindOf(msgs[id]), id) :
                      ~ShouldDelete(sw[p].impl, msgs[id], now)

\* a finished sweep without failures that took three fetches: a message was
\* deleted on the first page and another on the second, and the message
\* between them, which did not qualify, is still there
C15_Witness ==
    \E p \in DOMAIN sw : \E k \in Sweeps(p) :
        /\ SweepDone(p, k) /\ NoFailureIn(p, k)
        /\ Cardinality(Fetches(p, k)) = 3
        /\ \E a \in DeletedBy(p) : \E b \in DeletedBy(p) : \E id \in hist :
              a < id /\ id < b /\ InScope(msgs[id], k)

-----------------------------------------------------------------------------
(* C16 *)

\* the delete requests for message id that returned success, over all
\* invocations
SuccessfulDeletes(id) ==
    UNION { { <<p, j>> :
                j \in { i \in DOMAIN log[p] :
                         /\ log[p][i].ev = "delete"
                         /\ log[p][i].ok
                         /\ log[p][i].id = id } } : p \in DOMAIN sw }

C16_Safe ==
    /\ \A p \in DOMAIN sw : sw[p].pc # "raised"
    /\ \A id \in DOMAIN msgs : Cardinality(SuccessfulDeletes(id)) <= 1
    /\ DeletedBy(1) \cap DeletedBy(2) = {}
    /\ DirectDeleted(1) + StreamDeleted(1) + DirectDeleted(2) + StreamDeleted(2)
          = Cardinality(DOMAIN msgs \ hist)
    /\ DOMAIN msgs \ hist = DeletedBy(1) \cup DeletedBy(2)
    /\ \A id \in DOMAIN msgs \ hist :
          /\ ~Exempt(msgs[id])
          /\ Age(msgs[id], clock) > MaxAgeOf("alert", KindOf(msgs[id]))

C16_BothDone == \A p \in ConcProcs : sw[p].pc = "done"

\* C16: when two requests of the cleanup endpoint run interleaved over the
\* same history, a delete of a message the other run has removed fails without
\* an exception, every message is deleted successfully at most once and
\* counted by at most one run, the four counters add up to the number of
\* messages removed, no exempt or young message is removed, and both runs
\* reach DONE.
C16_ConcurrentSweepsHarmless == [] C16_Safe /\ <> C16_BothDone

\* the first run is done and has deleted and counted a message; the second
\* run, which fetched that message while it was still there, is about to send
\* its own delete request for it
C16_Witness ==
    \E id \in DeletedBy(1) :
        /\ sw[1].pc = "done"
        /\ Result(sw[1]).dm_deleted + Result(sw[1]).stream_deleted >= 1
        /\ sw[2].pc = "call"
        /\ Visit(sw[2].messages, sw[2].i) = id
        /\ id \notin hist

-----------------------------------------------------------------------------
(* C17 *)

\* the step on which a sweep sets its cursor after a page: anchor = oldest_id
Advances(p) ==
    /\ sw[p].pc = "loop"
    /\ sw'[p].pc \in {"wait", "summary", "total"}

\* the step on which a sweep starts
Begins(p) == sw[p].pc = "start" /\ sw'[p].pc = "fetch"

C17_Step ==
    \A p \in DOMAIN sw :
        /\ Begins(p) =>
              /\ sw'[p].anchor = Newest
              /\ sw[p].impl = "alert" =>
                    /\ sw'[p].total_dm_deleted = 0
                    /\ sw'[p].total_stream_deleted = 0
              /\ sw[p].impl = "delete_noti" =>
                    (IF sw[p].fn = "dm" THEN sw'[p].total_dm_deleted
                     ELSE sw'[p].total_stream_deleted) = 0
        /\ Advances(p) =>
              /\ sw'[p].anchor = sw[p].messages[1]
              /\ \A id \in Range(sw[p].messages) : sw'[p].anchor <= id
              /\ sw[p].anchor # Newest => sw'[p].anchor < sw[p].anchor

\* C17: every sweep starts with cursor "newest" and zeroed counters; after
\* each non-empty page the cursor is set to the identifier of the first, oldest
\* record of the page, and every concrete cursor value is strictly lower than
\* the concrete value before it.
C17_CursorDiscipline == [][C17_Step]_vars

-----------------------------------------------------------------------------
(* C18 *)

\* C18: within one sweep no message identifier receives a second delete
\* request, neither a message whose delete failed nor the message whose
\* identifier became the cursor of the next page.
C18_NoRetry ==
    \A p \in DOMAIN sw : \A k \in Sweeps(p) :
        \A i \in Deletes(p, k) : \A j \in Deletes(p, k) :
            log[p][i].id = log[p][j].id => i = j

-----------------------------------------------------------------------------
(* C19 *)

\* delete requests at positions a < b of the log of p are for the same page
SamePage(p, a, b) ==
    /\ a < b
    /\ log[p][a].ev = "delete" /\ log[p][b].ev = "delete"
    /\ \A x \in a..b : log[p][x].ev # "fetch"

\* ... and were issued by the same delete loop
SameLoop(p, a, b) ==
    SamePage(p, a, b) /\ \A x \in a..b : log[p][x].ev # "scan"

\* C19 as claimed: within one fetched page the delete requests are issued
\* oldest to newest, in run_delete_noti too, whose pages mix direct and
\* channel messages.
C19_OldestFirstInPage ==
    \A p \in DOMAIN sw : \A a \in DOMAIN log[p] : \A b \in DOMAIN log[p] :
        SamePage(p, a, b) => log[p][a].id < log[p][b].id

\* C19 amended: each delete loop issues its requests oldest to newest. In
\* delete_noti.py a page holds one kind and is walked by one loop, so its
\* requests are oldest-first; run_delete_noti walks each page twice, sending
\* first the direct-message requests, oldest first, and then the
\* channel-message requests, oldest first, so a channel message can get its
\* request after a newer direct message of the same page.
C19_OldestFirstPerLoop ==
    \A p \in DOMAIN sw : \A a \in DOMAIN log[p] : \A b \in DOMAIN log[p] :
        /\ SameLoop(p, a, b) => log[p][a].id < log[p][b].id
        /\ (SamePage(p, a, b) /\ sw[p].impl = "delete_noti") =>
              log[p][a].id < log[p][b].id
        /\ (SamePage(p, a, b) /\ ~SameLoop(p, a, b)) =>
              /\ KindOf(msgs[log[p][a].id]) = "dm"
              /\ KindOf(msgs[log[p][b].id]) = "stream"

\* a run of run_delete_noti in which one loop sent two requests for a page,
\* and on a page the request for a channel message came after the request for
\* a newer direct message
C19_Witness ==
    \E p \in DOMAIN sw :
        /\ sw[p].impl = "alert"
        /\ \E a \in DOMAIN log[p] : \E b \in DOMAIN log[p] : SameLoop(p, a, b)
        /\ \E a \in DOMAIN log[p] : \E b \in DOMAIN log[p] :
              /\ SamePage(p, a, b)
              /\ log[p][a].id > log[p][b].id
              /\ KindOf(msgs[log[p][b].id]) = "stream"

-----------------------------------------------------------------------------
(* C20 *)

\* C20: in the sequence of calls of a sweep every delete request comes right
\* after one delay step taken for the same message, so two delete requests
\* are never issued back to back; and a delay step is only taken for a
\* message the loop has decided to delete, the request following at once.
C20_DelayBeforeEachDelete ==
    \A p \in DOMAIN sw : \A j \in DOMAIN log[p] :
        /\ log[p][j].ev = "delete" =>
              /\ j > 1
              /\ log[p][j - 1].ev = "sleep"
              /\ log[p][j - 1].id = log[p][j].id
              /\ log[p][j - 1].fn = log[p][j].fn
        /\ log[p][j].ev = "sleep" =>
              /\ log[p][LoopOf(p, j)].fn = KindOf(msgs[log[p][j].id])
              /\ ShouldDelete(sw[p].impl, msgs[log[p][j].id],
                              log[p][LoopOf(p, j)].now)
              /\ IF j = Len(log[p])
                 THEN sw[p].pc = "call"
                 ELSE log[p][j + 1].ev = "delete"

\* the sleeps of invocation p
Sleeps(p) == { j \in DOMAIN log[p] : log[p][j].ev = "sleep" }

\* a finished sweep that kept a message and deleted two of one page, with a
\* delay step ahead of each of the two requests and none for the kept message
C20_Witness ==
    \E p \in DOMAIN sw : \E a \in DOMAIN log[p] : \E b \in DOMAIN log[p] :
        /\ sw[p].pc = "done"
        /\ SameLoop(p, a, b)
        /\ Cardinality(Sleeps(p)) = 2
        /\ \E id \in FetchedBy(p) : id \notin RequestedBy(p)

-----------------------------------------------------------------------------
(* C21 *)

\* fetches f < g of sweep k of p with no fetch of that sweep between them
ConsecutiveFetches(p, k, f, g) ==
    /\ f \in Fetches(p, k) /\ g \in Fetches(p, k) /\ f < g
    /\ \A x \in Fetches(p, k) : ~(f < x /\ x < g)

\* the inter-page delays of sweep k of p
Waits(p, k) == EventsOf(p, k, {"wait"})

\* the page fetched at position f of the log of p was the last of its sweep
FinalFetch(p, f) == ShortPage(log[p][f].page)

\* C21: between two consecutive page fetches of one sweep exactly one
\* inter-page delay occurs, and it comes after every examination, sleep and
\* delete request of the earlier page; no delay follows a final (empty or
\* short) page, so DONE is reached without a trailing delay.
C21_DelayBetweenPages ==
    \A p \in DOMAIN sw : \A k \in Sweeps(p) :
        /\ \A f \in Fetches(p, k) : \A g \in Fetches(p, k) :
              ConsecutiveFetches(p, k, f, g) =>
                  /\ Cardinality({ w \in Waits(p, k) : f < w /\ w < g }) = 1
                  /\ log[p][g - 1].ev = "wait"
                  /\ \E i \in ScansAfter(p, f) : i < g /\ LoopEnded(p, i)
        /\ \A w \in Waits(p, k) :
              \E f \in Fetches(p, k) :
                  /\ f < w /\ ~FinalFetch(p, f)
                  /\ \A x \in Fetches(p, k) : ~(f < x /\ x < w)
        /\ \A f \in Fetches(p, k) :
              FinalFetch(p, f) => \A w \in Waits(p, k) : w < f
        /\ SweepDone(p, k) =>
              \A j \in EventsOf(p, k, {"summary", "total"}) :
                  log[p][j - 1].ev # "wait"

\* a sweep that fetched a full page, deleted from it, waited once, fetched the
\* final page and reached DONE
C21_Witness ==
    \E p \in DOMAIN sw : \E k \in Sweeps(p) :
        /\ SweepDone(p, k)
        /\ Cardinality(Waits(p, k)) = 1
        /\ \E f \in Fetches(p, k) : \E g \in Fetches(p, k) :
              /\ ConsecutiveFetches(p, k, f, g)
              /\ FinalFetch(p, g)
              /\ \E d \in Deletes(p, k) : f < d /\ d < g

-----------------------------------------------------------------------------
(* Presence monitoring: presence_monitor_loop of alert.py, a thread that     *)
(* polls once a minute, and __main__ of zalert.py, which polls once per      *)
(* run.  env.file is the content of presence.json; bg holds last_status and  *)
(* current_status.                                                           *)

MaxPolls == 3       \* polls of one behaviour

\* Python None, and presence.json not yet written
NoStatus == "None"
NoFile == "missing"

\* aggregated.get("status") of a successful presence request
Statuses == {"active", "idle", "offline"}

\* load_previous_state().get("last_status"): None when the file is missing
LoadPreviousState(file) == IF file = NoFile THEN NoStatus ELSE file

\* get_user_presence: None on a non-success result
PresenceResult(outcome, status) ==
    IF outcome = "success" THEN status ELSE NoStatus

\* alert.py: call_endpoint and send_message of the presence loop are in no try
PollRaises(outcome) == outcome = "raise"
NotifyRaises(outcome) == outcome = "raise"

\* zalert.py: get_user_presence returns None on an exception, and the send is
\* in a try
Z_PollRaises(outcome) == FALSE
Z_NotifyRaises(outcome) == FALSE

\* if current_status == "active" and last_status != "active"
ShouldNotify(current_status, last_status) ==
    current_status = "active" /\ last_status # "active"

InitMonitor(impl) ==
    [impl |-> impl, pc |-> "load", last_status |-> NoStatus,
     current_status |-> NoStatus]

TraceEvent(ev, status) == [ev |-> ev, status |-> status, persisted |-> env.file]

PollCount == Cardinality({ i \in DOMAIN trace : trace[i].ev = "poll" })

\* state = load_previous_state(); last_status = state.get("last_status")
Pm_Load ==
    /\ bg.impl = "alert" /\ bg.pc = "load"
    /\ bg' = [bg EXCEPT !.pc = "poll",
                        !.last_status = LoadPreviousState(env.file)]
    /\ UNCHANGED <<env, trace, clock>>
    /\ UNCHANGED sweepVars

\* current_status = get_user_presence(TARGET_USER_ID) and the test that
\* follows it; an exception ends the thread
Pm_Poll ==
    /\ bg.impl = "alert" /\ bg.pc = "poll"
    /\ PollCount < MaxPolls
    /\ \E outcome \in Outcomes : \E status \in Statuses :
         IF PollRaises(outcome)
         THEN /\ bg' = [bg EXCEPT !.pc = "dead"]
              /\ trace' = Append(trace, TraceEvent("poll", "raise"))
         ELSE LET current_status == PresenceResult(outcome, status) IN
              /\ bg' = [bg EXCEPT
                    !.current_status = current_status,
                    !.pc = IF ShouldNotify(current_status, bg.last_status)
                           THEN "notify" ELSE "save"]
              /\ trace' = Append(trace, TraceEvent("poll", current_status))
    /\ UNCHANGED <<env, clock>>
    /\ UNCHANGED sweepVars

\* send_presence_notification(): the result is not looked at, an exception
\* ends the thread
Pm_Notify ==
    /\ bg.impl = "alert" /\ bg.pc = "notify"
    /\ \E outcome \in Outcomes :
         /\ bg' = [bg EXCEPT
               !.pc = IF NotifyRaises(outcome) THEN "dead" ELSE "save"]
         /\ trace' = Append(trace, TraceEvent("send", outcome))
    /\ UNCHANGED <<env, clock>>
    /\ UNCHANGED sweepVars

\* state["last_status"] = current_status; save_state(state);
\* last_status = current_status
Pm_Save ==
    /\ bg.impl = "alert" /\ bg.pc = "save"
    /\ env' = [env EXCEPT !.file = bg.current_status]
    /\ bg' = [bg EXCEPT !.pc = "sleep", !.last_status = bg.current_status]
    /\ trace' = Append(trace, TraceEvent("save", bg.current_status))
    /\ UNCHANGED clock
    /\ UNCHANGED sweepVars

\* time.sleep(60)
Pm_Sleep ==
    /\ bg.impl = "alert" /\ bg.pc = "sleep"
    /\ PollCount < MaxPolls
    /\ bg' = [bg EXCEPT !.pc = "poll"]
    /\ UNCHANGED <<env, trace, clock>>
    /\ UNCHANGED sweepVars

\* the service is started again, while the loop sleeps or after its thread
\* has ended: lifespan starts presence_monitor_loop anew
Pm_Restart ==
    /\ bg.impl = "alert" /\ bg.pc \in {"sleep", "dead"}
    /\ PollCount < MaxPolls
    /\ bg' = InitMonitor("alert")
    /\ trace' = Append(trace, TraceEvent("restart", NoStatus))
    /\ UNCHANGED <<env, clock>>
    /\ UNCHANGED sweepVars

\* zalert.py: state = load_previous_state(); last_status = ...
Z_Load ==
    /\ bg.impl = "zalert" /\ bg.pc = "load"
    /\ bg' = [bg EXCEPT !.pc = "poll",
                        !.last_status = LoadPreviousState(env.file)]
    /\ UNCHANGED <<env, trace, clock>>
    /\ UNCHANGED sweepVars

\* zalert.py: current_status = get_user_presence(TARGET_USER_ID)
Z_Poll ==
    /\ bg.impl = "zalert" /\ bg.pc = "poll"
    /\ PollCount < MaxPolls
    /\ \E outcome \in Outcomes : \E status \in Statuses :
         IF Z_PollRaises(outcome)
         THEN /\ bg' = [bg EXCEPT !.pc = "dead"]
              /\ trace' = Append(trace, TraceEvent("poll", "raise"))
         ELSE LET current_status == PresenceResult(outcome, status) IN
              /\ bg' = [bg EXCEPT
                    !.current_status = current_status,
                    !.pc = IF ShouldNotify(current_status, bg.last_status)
                           THEN "notify" ELSE "save"]
              /\ trace' = Append(trace, TraceEvent("poll", current_status))
    /\ UNCHANGED <<env, clock>>
    /\ UNCHANGED sweepVars

\* zalert.py: the send of "IsNowActive", in a try
Z_Notify ==
    /\ bg.impl = "zalert" /\ bg.pc = "notify"
    /\ \E outcome \in Outcomes :
         /\ bg' = [bg EXCEPT
               !.pc = IF Z_NotifyRaises(outcome) THEN "dead" ELSE "save"]
         /\ trace' = Append(trace, TraceEvent("send", outcome))
    /\ UNCHANGED <<env, clock>>
    /\ UNCHANGED sweepVars

\* zalert.py: state["last_status"] = current_status; save_state(state); the
\* run then goes on to the message count and ends
Z_Save ==
    /\ bg.impl = "zalert" /\ bg.pc = "save"
    /\ env' = [env EXCEPT !.file = bg.current_status]
    /\ bg' = [bg EXCEPT !.pc = "exit", !.last_status = bg.current_status]
    /\ trace' = Append(trace, TraceEvent("save", bg.current_status))
    /\ UNCHANGED clock
    /\ UNCHANGED sweepVars

\* the next scheduled run of zalert.py
Z_Rerun ==
    /\ bg.impl = "zalert" /\ bg.pc = "exit"
    /\ PollCount < MaxPolls
    /\ bg' = InitMonitor("zalert")
    /\ trace' = Append(trace, TraceEvent("restart", NoStatus))
    /\ UNCHANGED <<env, clock>>
    /\ UNCHANGED sweepVars

NoSweep ==
    /\ msgs = <<>> /\ hist = {} /\ sw = <<>> /\ log = <<>>
    /\ verdict = NoVerdict

PresenceInit ==
    /\ NoSweep
    /\ clock = 0
    /\ \E impl \in {"alert", "zalert"} : bg = InitMonitor(impl)
    /\ \E file \in {NoFile, NoStatus} \cup Statuses : env = [file |-> file]
    /\ trace = <<>>

PresenceNext ==
    \/ Pm_Load
    \/ Pm_Poll
    \/ Pm_Notify
    \/ Pm_Save
    \/ Pm_Sleep
    \/ Pm_Restart
    \/ Z_Load
    \/ Z_Poll
    \/ Z_Notify
    \/ Z_Save
    \/ Z_Rerun

PresenceSpec == PresenceInit /\ [][PresenceNext]_vars

-----------------------------------------------------------------------------
(* C22 *)

\* positions of the trace by kind of event
TraceOf(ev) == { i \in DOMAIN trace : trace[i].ev = ev }

\* the polls that returned a status
ReturnedPolls == { i \in TraceOf("poll") : trace[i].status # "raise" }

\* j is the poll that follows poll i
FollowingPoll(i, j) ==
    /\ i \in TraceOf("poll") /\ j \in TraceOf("poll") /\ i < j
    /\ \A x \in TraceOf("poll") : ~(i < x /\ x < j)

\* C22: "IsNowActive" is sent at a poll exactly when that poll returns
\* "active" and the status recorded from the poll before it, in presence.json,
\* is not "active"; at every poll the persisted last_status is the status the
\* poll before it returned; so two notifications are always separated by a
\* poll whose result was not "active", restarts included.
C22_EdgeTriggered ==
    /\ \A i \in ReturnedPolls :
          i < Len(trace) =>
              (trace[i + 1].ev = "send" <=>
                  (trace[i].status = "active"
                      /\ trace[i].persisted # "active"))
    /\ \A s \in TraceOf("send") : s - 1 \in ReturnedPolls
    /\ \A i \in ReturnedPolls : \A j \in TraceOf("poll") :
          FollowingPoll(i, j) => trace[j].persisted = trace[i].status
    /\ \A s \in TraceOf("send") : \A t \in TraceOf("send") :
          s < t => \E i \in ReturnedPolls :
                       s < i /\ i < t /\ trace[i].status # "active"

-----------------------------------------------------------------------------
(* Heartbeat: send_heartbeat_loop of alert.py.  In this specification and    *)
(* in the one of the quarter-hour loop the clock counts minutes of UTC; the  *)
(* loop wakes at instants of WakeTimes, each later than the one before.      *)

MaxDays == 2        \* days a behaviour of a timed loop covers

MinutesPerDay == 24 * 60

\* the nine hours of the conversion are left out
ToJst_Utc(t) == t

\* datetime.utcnow() + timedelta(hours=9)
ToJst(t) == t + 9 * 60

\* now_jst.hour and now_jst.minute
JstHour(t) == (ToJst(t) \div 60) % 24
JstMinute(t) == ToJst(t) % 60

\* allowed_hours = {7, 10, 13, 16, 19, 22}
allowed_hours == {7, 10, 13, 16, 19, 22}

\* last_sent_hour = None
NoHour == -1

\* the hours, in JST, at whose minutes 0 and 1 the loop may wake
WakeHours == {6, 7, 10, 11, 22}

\* time.sleep(60) returns a minute later or more: the instants at which an
\* iteration may read the clock
WakeTimes ==
    { t \in 0..(MaxDays * MinutesPerDay - 1) :
        JstHour(t) \in WakeHours /\ JstMinute(t) \in {0, 1} }

\* if hour in allowed_hours and minute == 0: if last_sent_hour != hour:
BeatDue(t, last_sent_hour) ==
    /\ JstHour(t) \in allowed_hours
    /\ JstMinute(t) = 0
    /\ last_sent_hour # JstHour(t)

\* the send is in a try: the exception is printed
BeatRaises(outcome) == FALSE

InitBeat == [pc |-> "check", last_sent_hour |-> NoHour]

\* one iteration that sends: last_sent_hour = hour follows send_message in
\* the try, so an exception leaves it as it was
Hb_Send ==
    /\ bg.pc = "check"
    /\ BeatDue(clock, bg.last_sent_hour)
    /\ \E outcome \in Outcomes :
         /\ trace' = Append(trace, [ev |-> "send", at |-> clock,
                                    hour |-> JstHour(clock),
                                    outcome |-> outcome])
         /\ bg' = [bg EXCEPT
               !.pc = IF BeatRaises(outcome) THEN "dead" ELSE "sleep",
               !.last_sent_hour =
                   IF outcome = "raise" THEN @ ELSE JstHour(clock)]
    /\ UNCHANGED <<env, clock>>
    /\ UNCHANGED sweepVars

\* one iteration that sends nothing
Hb_Skip ==
    /\ bg.pc = "check"
    /\ ~BeatDue(clock, bg.last_sent_hour)
    /\ bg' = [bg EXCEPT !.pc = "sleep"]
    /\ UNCHANGED <<env, trace, clock>>
    /\ UNCHANGED sweepVars

\* time.sleep(60)
Hb_Sleep ==
    /\ bg.pc = "sleep"
    /\ \E t \in WakeTimes : t > clock /\ clock' = t
    /\ bg' = [bg EXCEPT !.pc = "check"]
    /\ UNCHANGED <<env, trace>>
    /\ UNCHANGED sweepVars

HeartbeatInit ==
    /\ NoSweep
    /\ clock \in { t \in WakeTimes : t < MinutesPerDay }
    /\ bg = InitBeat
    /\ env = <<>>
    /\ trace = <<>>

HeartbeatNext ==
    \/ Hb_Send
    \/ Hb_Skip
    \/ Hb_Sleep

HeartbeatSpec == HeartbeatInit /\ [][HeartbeatNext]_vars

-----------------------------------------------------------------------------
(* C23 *)

\* hour and minute of Japan Standard Time, nine hours ahead of UTC
SpecJstHour(t) == ((t + 9 * 60) \div 60) % 24
SpecJstMinute(t) == (t + 9 * 60) % 60

\* the sends that did not raise
Delivered == { i \in DOMAIN trace : trace[i].outcome # "raise" }

\* i and j are successive members of the set S of positions
Successive(S, i, j) ==
    /\ i \in S /\ j \in S /\ i < j
    /\ \A x \in S : ~(i < x /\ x < j)

\* C23: a heartbeat is sent only at minute 0 of a JST hour of 7, 10, 13, 16,
\* 19, 22 and carries that hour; an iteration sends at most one; two
\* successive heartbeats that were sent without an exception never carry the
\* same hour; last_sent_hour is the hour of the last send that did not raise;
\* a send that raises does not stop the loop.
C23_Heartbeat ==
    /\ \A i \in DOMAIN trace :
          /\ SpecJstHour(trace[i].at) \in {7, 10, 13, 16, 19, 22}
          /\ SpecJstMinute(trace[i].at) = 0
          /\ trace[i].hour = SpecJstHour(trace[i].at)
    /\ \A i \in DOMAIN trace : \A j \in DOMAIN trace :
          trace[i].at = trace[j].at => i = j
    /\ \A i \in Delivered : \A j \in Delivered :
          Successive(Delivered, i, j) => trace[i].hour # trace[j].hour
    /\ bg.last_sent_hour =
          IF Delivered = {} THEN NoHour
          ELSE trace[CHOOSE i \in Delivered : \A j \in Delivered : j <= i].hour
    /\ bg.pc # "dead"
    /\ (trace # <<>> /\ trace[Len(trace)].outcome = "raise"
            /\ trace[Len(trace)].at = clock) => bg.pc = "sleep"

\* a send at 07:00 that raised and left last_sent_hour alone, a heartbeat at
\* 10:00 after it, and a later iteration of the loop
C23_Witness ==
    /\ Len(trace) >= 2
    /\ trace[1].outcome = "raise" /\ trace[1].hour = 7
    /\ trace[2].outcome # "raise" /\ trace[2].hour = 10
    /\ bg.last_sent_hour = 10
    /\ clock > trace[2].at

-----------------------------------------------------------------------------
(* Event handler: handle_event of alert.py, called for one event of the      *)
(* queue.  env.event is the event.                                           *)

TARGET_STREAM == "spring"
TARGET_TOPIC == "Txt"
TARGET_USER_ZULIP_EMAIL == "target"

\* stream identifiers on the server
StreamIds == [spring |-> 10, general |-> 11]

NoMessage == [type |-> "none", stream_id |-> 0, subject |-> "",
              sender_email |-> ""]

\* the events the queue may deliver
Events ==
    { [type |-> "message",
       message |-> [type |-> t, stream_id |-> i, subject |-> s,
                    sender_email |-> e]] :
          t \in {"stream", "private"}, i \in {10, 11, 12},
          s \in {"Txt", "txt", "misc"},
          e \in {"target", "source", "noti"} }
    \cup { [type |-> t, message |-> NoMessage] : t \in {"presence", "heartbeat"} }

\* the sender is not compared
IsAlertMessage_AnySender(msg, stream_info) ==
    /\ msg.stream_id = stream_info.stream_id
    /\ msg.subject = TARGET_TOPIC

\* msg.get("stream_id") == stream_info["stream_id"] and msg.get("subject") ==
\* TARGET_TOPIC and msg.get("sender_email") == TARGET_USER_ZULIP_EMAIL
IsAlertMessage(msg, stream_info) ==
    /\ msg.stream_id = stream_info.stream_id
    /\ msg.subject = TARGET_TOPIC
    /\ msg.sender_email = TARGET_USER_ZULIP_EMAIL

\* bot_client.get_stream_id(name)
GetStreamId(outcome, name) ==
    IF outcome = "success"
    THEN [result |-> "success", stream_id |-> StreamIds[name]]
    ELSE [result |-> "error", stream_id |-> 0]

\* the lookup is in no try: its exception leaves handle_event; the send is in
\* a try
LookupRaises(outcome) == outcome = "raise"
AlertRaises(outcome) == FALSE

\* event["type"] != "message" or msg.get("type") != "stream": return
IsStreamMessageEvent(event) ==
    event.type = "message" /\ event.message.type = "stream"

\* handle_event(event) for an event it returns from at once
He_Ignore ==
    /\ bg.pc = "wait"
    /\ ~IsStreamMessageEvent(env.event)
    /\ bg' = [bg EXCEPT !.pc = "returned"]
    /\ UNCHANGED <<env, trace, clock>>
    /\ UNCHANGED sweepVars

\* handle_event(event) for a stream message: the lookup of the target stream,
\* the comparison and the send
He_Handle ==
    /\ bg.pc = "wait"
    /\ IsStreamMessageEvent(env.event)
    /\ \E lookup \in Outcomes : \E outcome \in Outcomes :
         LET stream_info == GetStreamId(lookup, TARGET_STREAM)
             looked == [ev |-> "lookup", outcome |-> lookup, content |-> ""]
             sent == [ev |-> "send", outcome |-> outcome,
                      content |-> "Alert: Join Teams Meeting"]
         IN  IF LookupRaises(lookup)
             THEN /\ bg' = [bg EXCEPT !.pc = "raised"]
                  /\ trace' = <<looked>>
             ELSE IF stream_info.result # "success"
             THEN /\ bg' = [bg EXCEPT !.pc = "returned"]
                  /\ trace' = <<looked>>
             ELSE IF IsAlertMessage(env.event.message, stream_info)
             THEN /\ bg' = [bg EXCEPT
                        !.pc = IF AlertRaises(outcome) THEN "raised"
                               ELSE "returned"]
                  /\ trace' = <<looked, sent>>
             ELSE /\ bg' = [bg EXCEPT !.pc = "returned"]
                  /\ trace' = <<looked>>
    /\ UNCHANGED <<env, clock>>
    /\ UNCHANGED sweepVars

EventInit ==
    /\ NoSweep
    /\ clock = 0
    /\ bg = [pc |-> "wait"]
    /\ \E event \in Events : env = [event |-> event]
    /\ trace = <<>>

EventNext ==
    \/ He_Ignore
    \/ He_Handle

EventSpec == EventInit /\ [][EventNext]_vars

-----------------------------------------------------------------------------
(* C24 *)

\* the alerts handle_event has sent
Alerts ==
    { i \in DOMAIN trace :
        trace[i].ev = "send" /\ trace[i].content = "Alert: Join Teams Meeting" }

\* the lookup of the target stream was made and succeeded
LookupSucceeded ==
    \E i \in DOMAIN trace :
        trace[i].ev = "lookup" /\ trace[i].outcome = "success"

\* the event is a message event of type stream, in the target stream, with
\* the target topic as subject, sent by the target user
IsTargetEvent(event) ==
    /\ event.type = "message"
    /\ event.message.type = "stream"
    /\ event.message.stream_id = 10
    /\ event.message.subject = "Txt"
    /\ event.message.sender_email = "target"

\* C24: once handle_event has run, it has sent "Alert: Join Teams Meeting"
\* exactly when the event is a message event of type stream whose stream id is
\* the one of the target stream, whose subject is the target topic and whose
\* sender is the target user, and the lookup of the target stream succeeded;
\* it sends nothing else and never more than one alert.
C24_MeetingAlert ==
    bg.pc # "wait" =>
        /\ Alerts # {} <=> (IsTargetEvent(env.event) /\ LookupSucceeded)
        /\ Cardinality(Alerts) <= 1
        /\ \A i \in DOMAIN trace : trace[i].ev = "send" => i \in Alerts

\* the target event was handled and the alert sent
C24_Witness ==
    /\ bg.pc = "returned"
    /\ IsTargetEvent(env.event)
    /\ Alerts # {}

-----------------------------------------------------------------------------
(* Random broadcast: broadcast_random_messages of alert.py.  env.messages    *)
(* is the list of the non-empty lines of messages.txt, a line standing for   *)
(* its number; env.subs is the set of the subscribed streams.                *)

MaxLines == 3       \* most lines of messages.txt

\* random.sample(population, min(3, len(population)))
SampleSize == 3

\* the streams of the server and the topics of each
Streams == {"spring", "general", "random", "ops"}
TopicsOf ==
    [spring |-> {"Txt", "misc"}, general |-> {"misc"}, random |-> {},
     ops |-> {"Txt"}]

Min(a, b) == IF a < b THEN a ELSE b

\* random.sample(population, k): the sequences of k distinct members
Samples(population, k) ==
    { s \in [1..k -> population] :
        \A i \in 1..k : \A j \in 1..k : s[i] = s[j] => i = j }

\* the pair TARGET_STREAM / TARGET_TOPIC is not skipped
IsTargetPair_Never(name, topic) == FALSE

\* if stream["name"] == TARGET_STREAM and topic == TARGET_TOPIC: continue
IsTargetPair(name, topic) == name = TARGET_STREAM /\ topic = TARGET_TOPIC

\* get_subscribed_streams: [] on a non-success result
SubscribedStreams(outcome) == IF outcome = "success" THEN env.subs ELSE {}

\* get_topics_for_stream: [] on a non-success result
TopicsForStream(outcome, name) ==
    IF outcome = "success" THEN TopicsOf[name] ELSE {}

\* get_subscriptions and get_stream_topics are called outside any try; the
\* send is in a try
BroadcastFetchRaises(outcome) == outcome = "raise"
BroadcastSendRaises(outcome) == FALSE

\* chosen_msgs[idx] raises IndexError past the end of the list
IndexInRange(list, idx) == idx \in DOMAIN list

InitBroadcast ==
    [pc |-> "start", chosen_msgs |-> <<>>, chosen_streams |-> <<>>,
     idx |-> 1, error |-> "none"]

BroadcastEvent(ev, stream, subject, content, outcome) ==
    [ev |-> ev, stream |-> stream, subject |-> subject, content |-> content,
     outcome |-> outcome]

\* messages = load_random_messages() ... chosen_streams = random.sample(...)
Bc_Start ==
    /\ bg.pc = "start"
    /\ IF env.messages = <<>>
       THEN bg' = [bg EXCEPT !.pc = "returned"]
       ELSE \E chosen_msgs \in Samples(Range(env.messages),
                                       Min(SampleSize, Len(env.messages))) :
            \E outcome \in Outcomes :
              LET subs == SubscribedStreams(outcome) IN
              IF BroadcastFetchRaises(outcome)
              THEN bg' = [bg EXCEPT !.pc = "raised", !.error = "remote",
                                    !.chosen_msgs = chosen_msgs]
              ELSE IF subs = {}
              THEN bg' = [bg EXCEPT !.pc = "returned",
                                    !.chosen_msgs = chosen_msgs]
              ELSE \E chosen_streams \in
                          Samples(subs, Min(SampleSize, Cardinality(subs))) :
                     bg' = [bg EXCEPT !.pc = "loop",
                                      !.chosen_msgs = chosen_msgs,
                                      !.chosen_streams = chosen_streams]
    /\ UNCHANGED <<env, trace, clock>>
    /\ UNCHANGED sweepVars

\* one iteration of for idx, stream in enumerate(chosen_streams)
Bc_Visit ==
    /\ bg.pc = "loop"
    /\ bg.idx <= Len(bg.chosen_streams)
    /\ LET name == bg.chosen_streams[bg.idx] IN
       \E fetched \in Outcomes :
         LET topics == TopicsForStream(fetched, name)
             visit == BroadcastEvent("visit", name, "", 0, fetched)
         IN
         IF BroadcastFetchRaises(fetched)
         THEN /\ bg' = [bg EXCEPT !.pc = "raised", !.error = "remote"]
              /\ trace' = Append(trace, visit)
         ELSE IF topics = {}
         THEN /\ bg' = [bg EXCEPT !.idx = @ + 1]
              /\ trace' = Append(trace, visit)
         ELSE \E topic \in topics :
              IF ~IndexInRange(bg.chosen_msgs, bg.idx)
              THEN /\ bg' = [bg EXCEPT !.pc = "raised",
                                       !.error = "IndexError"]
                   /\ trace' = Append(trace, visit)
              ELSE IF IsTargetPair(name, topic)
              THEN /\ bg' = [bg EXCEPT !.idx = @ + 1]
                   /\ trace' = trace \o
                         <<visit, BroadcastEvent("skip", name, topic,
                                      bg.chosen_msgs[bg.idx], "none")>>
              ELSE \E outcome \in Outcomes :
                   /\ bg' = IF BroadcastSendRaises(outcome)
                            THEN [bg EXCEPT !.pc = "raised",
                                            !.error = "remote"]
                            ELSE [bg EXCEPT !.idx = @ + 1]
                   /\ trace' = trace \o
                         <<visit, BroadcastEvent("send", name, topic,
                                      bg.chosen_msgs[bg.idx], outcome)>>
    /\ UNCHANGED <<env, clock>>
    /\ UNCHANGED sweepVars

\* the loop is over
Bc_Return ==
    /\ bg.pc = "loop"
    /\ bg.idx > Len(bg.chosen_streams)
    /\ bg' = [bg EXCEPT !.pc = "returned"]
    /\ UNCHANGED <<env, trace, clock>>
    /\ UNCHANGED sweepVars

BroadcastInit ==
    /\ NoSweep
    /\ clock = 0
    /\ bg = InitBroadcast
    /\ \E n \in 0..MaxLines : \E subs \in SUBSET Streams :
         env = [messages |-> [i \in 1..n |-> i], subs |-> subs]
    /\ trace = <<>>

BroadcastNext ==
    \/ Bc_Start
    \/ Bc_Visit
    \/ Bc_Return

BroadcastSpec == BroadcastInit /\ [][BroadcastNext]_vars

-----------------------------------------------------------------------------
(* C25 *)

\* the messages the broadcast has sent
Broadcasts == { i \in DOMAIN trace : trace[i].ev = "send" }

\* C25: a random broadcast never sends to the pair ("spring", "Txt"), sends
\* to at most 3 streams, and only to subscribed streams and to topics that
\* exist in the stream chosen.
C25_BroadcastSafe ==
    /\ \A i \in Broadcasts :
          /\ ~(trace[i].stream = "spring" /\ trace[i].subject = "Txt")
          /\ trace[i].stream \in env.subs
          /\ trace[i].subject \in TopicsOf[trace[i].stream]
    /\ Cardinality(Broadcasts) <= 3
    /\ Cardinality({ trace[i].stream : i \in Broadcasts }) <= 3

\* a broadcast that drew "spring" with topic "Txt", skipped it, and sent to
\* another stream
C25_Witness ==
    /\ bg.pc = "returned"
    /\ \E i \in DOMAIN trace :
          /\ trace[i].ev = "skip"
          /\ trace[i].stream = "spring" /\ trace[i].subject = "Txt"
    /\ Broadcasts # {}

-----------------------------------------------------------------------------
(* C26 *)

\* the streams the broadcast has visited, in order
Visited == { i \in DOMAIN trace : trace[i].ev = "visit" }

\* no remote call of the broadcast has raised
NoRemoteError == bg.error # "remote"

\* C26: for every non-empty message list and non-empty subscription list,
\* also with fewer messages than chosen streams, the broadcast visits every
\* chosen stream, pairs each stream it sends to with a chosen message of its
\* own, and finishes without an out-of-range access or uncaught error.
C26_BroadcastCompletes ==
    (env.messages # <<>> /\ env.subs # {} /\ NoRemoteError) =>
        /\ bg.pc # "raised"
        /\ bg.pc = "returned" /\ bg.chosen_streams # <<>> =>
              /\ \A k \in DOMAIN bg.chosen_streams :
                    \E i \in Visited : trace[i].stream = bg.chosen_streams[k]
              /\ \A i \in Broadcasts : \A j \in Broadcasts :
                    trace[i].content = trace[j].content => i = j

-----------------------------------------------------------------------------
(* Quarter-hour report: check_recent_messages_loop of alert.py.  The clock   *)
(* counts minutes of UTC; env.stamps holds the timestamps of the messages of *)
(* the target topic.                                                         *)

\* the UTC minute of the first day at which JST reads h:m
FromJst(h, m) == (h * 60 + m + MinutesPerDay - 9 * 60) % MinutesPerDay

\* the JST times at which the loop may find itself awake
ReportWakeTimes ==
    { t \in 0..(MaxDays * MinutesPerDay - 1) :
        JstHour(t) \in {5, 6} /\ JstMinute(t) \in {0, 14, 30} }

\* timestamps of messages in the target topic
RecentStamps == {FromJst(5, 55), FromJst(6, 25), FromJst(6, 28)}

\* get_messages_last_15_minutes returns None
NoCount == -1

\* every hour is taken for a reporting hour
InReportHours_Always(hour) == TRUE

\* if 6 <= hour <= 23
InReportHours(hour) == 6 <= hour /\ hour <= 23

\* if minute in {0, 15, 30, 45}
IsQuarter(minute) == minute \in {0, 15, 30, 45}

\* if minute in {30}
IsBroadcastMinute(minute) == minute \in {30}

\* is_user_active: False on a non-success result or an exception
IsUserActive(outcome) == outcome = "success"

\* get_messages_last_15_minutes: 0 for an inactive user, None when the fetch
\* fails, else the number of messages with timestamp >= now - 15 minutes
RecentCount(active, outcome, stamps, now) ==
    IF ~IsUserActive(active) THEN 0
    ELSE IF outcome # "success" THEN NoCount
    ELSE Cardinality({ ts \in stamps : ts >= now - 15 })

\* notify_recent_message_count: count is None: return; if count > 0: send
SendsCount(count) == count # NoCount /\ count > 0

ReportEvent(ev, count) == [ev |-> ev, at |-> clock, count |-> count]

\* an iteration at a quarter within the reporting hours:
\* notify_recent_message_count(), mute_target_topic(), and at minute 30
\* broadcast_random_messages(); the last two are called outside any try
Ql_Report ==
    /\ bg.pc = "check"
    /\ IsQuarter(JstMinute(clock)) /\ InReportHours(JstHour(clock))
    /\ \E active \in Outcomes : \E fetched \in Outcomes :
       \E muted \in BOOLEAN : \E broadcast \in BOOLEAN :
         LET count == RecentCount(active, fetched, env.stamps, clock)
             counted == <<ReportEvent("count", count)>>
             notified == IF SendsCount(count)
                         THEN <<ReportEvent("notify", count)>> ELSE <<>>
         IN  IF ~muted
             THEN /\ trace' = trace \o counted \o notified
                  /\ bg' = [bg EXCEPT !.pc = "dead"]
             ELSE IF IsBroadcastMinute(JstMinute(clock))
             THEN /\ trace' = trace \o counted \o notified
                                 \o <<ReportEvent("broadcast", 0)>>
                  /\ bg' = [bg EXCEPT
                        !.pc = IF broadcast THEN "sleep" ELSE "dead"]
             ELSE /\ trace' = trace \o counted \o notified
                  /\ bg' = [bg EXCEPT !.pc = "sleep"]
    /\ UNCHANGED <<env, clock>>
    /\ UNCHANGED sweepVars

\* an iteration at a quarter outside the reporting hours
Ql_Quiet ==
    /\ bg.pc = "check"
    /\ IsQuarter(JstMinute(clock)) /\ ~InReportHours(JstHour(clock))
    /\ bg' = [bg EXCEPT !.pc = "sleep"]
    /\ UNCHANGED <<env, trace, clock>>
    /\ UNCHANGED sweepVars

\* an iteration at any other minute
Ql_Idle ==
    /\ bg.pc = "check"
    /\ ~IsQuarter(JstMinute(clock))
    /\ bg' = [bg EXCEPT !.pc = "sleep"]
    /\ UNCHANGED <<env, trace, clock>>
    /\ UNCHANGED sweepVars

\* time.sleep(60) after a quarter, time.sleep(1)
Ql_Sleep ==
    /\ bg.pc = "sleep"
    /\ \E t \in ReportWakeTimes : t > clock /\ clock' = t
    /\ bg' = [bg EXCEPT !.pc = "check"]
    /\ UNCHANGED <<env, trace>>
    /\ UNCHANGED sweepVars

ReportInit ==
    /\ NoSweep
    /\ clock \in { t \in ReportWakeTimes : t < MinutesPerDay }
    /\ bg = [pc |-> "check"]
    /\ \E stamps \in SUBSET RecentStamps : env = [stamps |-> stamps]
    /\ trace = <<>>

ReportNext ==
    \/ Ql_Report
    \/ Ql_Quiet
    \/ Ql_Idle
    \/ Ql_Sleep

ReportSpec == ReportInit /\ [][ReportNext]_vars

-----------------------------------------------------------------------------
(* C27 *)

\* the iteration at instant t is at a quarter of an hour from 6 to 23, JST
ReportingIteration(t) ==
    /\ SpecJstMinute(t) \in {0, 15, 30, 45}
    /\ 6 <= SpecJstHour(t) /\ SpecJstHour(t) <= 23

\* C27: the recent-message notification is sent only in an iteration at a
\* JST minute of 0, 15, 30, 45 of an hour from 6 to 23, and only when the
\* count fetched in that iteration is greater than 0; it is not sent when the
\* fetch failed (count None) or the target user is inactive (count 0); the
\* random broadcast runs only in such an iteration at minute 30.
C27_ReportGating ==
    \A i \in DOMAIN trace :
        /\ trace[i].ev = "notify" =>
              /\ ReportingIteration(trace[i].at)
              /\ i > 1 /\ trace[i - 1].ev = "count"
              /\ trace[i - 1].at = trace[i].at
              /\ trace[i - 1].count > 0
              /\ trace[i].count = trace[i - 1].count
        /\ (trace[i].ev = "count" /\ trace[i].count <= 0 /\ i < Len(trace))
              => trace[i + 1].ev # "notify"
        /\ trace[i].ev = "broadcast" =>
              /\ ReportingIteration(trace[i].at)
              /\ SpecJstMinute(trace[i].at) = 30

\* a report of two messages at 06:30 followed by the broadcast, after an
\* iteration at 06:00 that fetched nothing
C27_Witness ==
    \E i \in DOMAIN trace : \E j \in DOMAIN trace : \E k \in DOMAIN trace :
        /\ i < j /\ j < k
        /\ trace[i].ev = "count" /\ trace[i].count = NoCount
        /\ trace[j].ev = "notify" /\ trace[j].count = 2
        /\ SpecJstMinute(trace[j].at) = 30
        /\ trace[k].ev = "broadcast" /\ trace[k].at = trace[j].at

-----------------------------------------------------------------------------
(* Both programs on one history: run_delete_noti of alert.py is run, then    *)
(* delete_noti.py is run on a copy of the history as it was before.  The     *)
(* clock stands still, so that both read the same time.  No direct message   *)
(* of Catalog is aged between Dn_DM_DELETE_OLDER_THAN and                    *)
(* DM_DELETE_OLDER_THAN: on these histories the retention parameters of the  *)
(* two programs decide alike.                                                *)

\* delete_noti.py is started on the history run_delete_noti was started on
RunOther ==
    /\ Len(sw) = 1
    /\ sw[1].pc = "done"
    /\ hist' = DOMAIN msgs
    /\ sw' = <<sw[1], InitSweep("delete_noti")>>
    /\ log' = <<log[1], <<>>>>
    /\ UNCHANGED <<bg, env, trace, msgs, clock, verdict>>

AgreeInit ==
    /\ msgs \in Histories
    /\ hist = DOMAIN msgs
    /\ clock = StartClock + MaxTicks
    /\ sw = <<InitSweep("alert")>>
    /\ log = <<<<>>>>
    /\ verdict = NoVerdict
    /\ NoBackground

AgreeNext ==
    \/ \E p \in DOMAIN sw : Start(p)
    \/ \E p \in DOMAIN sw : Fetch(p)
    \/ \E p \in DOMAIN sw : LoopSkip(p)
    \/ \E p \in DOMAIN sw : LoopSleep(p)
    \/ \E p \in DOMAIN sw : LoopCall(p)
    \/ \E p \in DOMAIN sw : DirectReturn(p)
    \/ \E p \in DOMAIN sw : StreamReturn(p)
    \/ \E p \in DOMAIN sw : PageWait(p)
    \/ \E p \in DOMAIN sw : Summary(p)
    \/ RunOther
    \/ \E p \in DOMAIN sw : Dn_Start(p)
    \/ \E p \in DOMAIN sw : Dn_Fetch(p)
    \/ \E p \in DOMAIN sw : Dn_LoopSkip(p)
    \/ \E p \in DOMAIN sw : Dn_LoopSleep(p)
    \/ \E p \in DOMAIN sw : Dn_LoopCall(p)
    \/ \E p \in DOMAIN sw : Dn_EndBatch(p)
    \/ \E p \in DOMAIN sw : Dn_PageWait(p)
    \/ \E p \in DOMAIN sw : Dn_Total(p)

AgreeSpec == AgreeInit /\ [][AgreeNext]_vars

-----------------------------------------------------------------------------
(* C28 *)

\* both programs have run to their end and met no fetch or delete failure
BothRan ==
    /\ Len(sw) = 2
    /\ sw[1].pc = "done" /\ sw[2].pc = "done"
    /\ NoFailure(1) /\ NoFailure(2)

\* the counts a program reports at its end, by kind
FinalReport(p, kind) ==
    LET last == CHOOSE j \in DOMAIN log[p] :
                    /\ log[p][j].ev \in {"summary", "total"}
                    /\ \A x \in DOMAIN log[p] : x <= j
    IN  IF kind = "dm" THEN log[p][last].dm ELSE log[p][last].stream

====
